---- MODULE Spec2Model ----
(***************************************************************************)
(* A model of the invoice extraction engine of prsr:                       *)
(*   llm_pdf_parser.py    LLMPDFParser   (text acquisition, LLM call,      *)
(*                                        normalization, regex fallback)   *)
(*   simple_pdf_parser.py SimplePDFParser (pattern strategy)               *)
(*   pdf_parser.py        InvoiceParser   (pattern strategy)               *)
(*                                                                         *)
(* A Python str is a sequence of lexemes.  A lexeme is a TLA+ string that  *)
(* stands for a fixed run of characters ("W40" is a word of 40 lower-case  *)
(* letters, "SP50" a run of 50 blanks, "RUPEE" the rupee sign); every      *)
(* other lexeme stands for itself.  Word lexemes of a document are always  *)
(* separated by blank, newline or punctuation lexemes.                     *)
(***************************************************************************)
EXTENDS Integers, Sequences, FiniteSets, TLC

VARIABLES
    pc,            \* position of the LLMPDFParser object / of parse()
    llm_provider,  \* self.llm_provider
    api_key,       \* self.api_key
    text,          \* self.text
    native_text,   \* local text of extract_text after the PyPDF2 step
    ocr_text,      \* local ocr_text of extract_text
    llm_response,  \* local llm_response of parse
    response,      \* what the HTTP exchange of the current parse gave (requests.post)
    invoice_data,  \* first component of the value parse returns
    item_data,     \* second component of the value parse returns
    path,          \* which return statement of parse produced the result
    nativeCalls,   \* calls of _extract_text_with_pypdf in the current parse
    ocrCalls,      \* calls of _extract_text_with_ocr in the current parse
    llmCalls,      \* calls of _call_llm_api in the current parse
    parses,        \* number of parse() calls started on the object
    errors,        \* extractors whose except clause ran in the current parse
    parser,        \* the class of the object
    pdf,           \* the file at self.pdf_path of a pattern parser
    HAS_DOCLING,   \* pdf_parser.HAS_DOCLING
    ocr_model,     \* self.ocr_model of an InvoiceParser
    message,       \* what upload_invoice answers for the current request
    processing_info, \* the files of a bulk job, in submission order
    results,       \* local results of process_bulk_files
    status_file,   \* contents of output/job_<id>_status.json
    temp,          \* the temporary copies that exist under temp/
    job,           \* position of process_bulk_files
    cursor         \* index of the entry of processing_info the loop is at

vars == <<pc, llm_provider, api_key, text, native_text, ocr_text, llm_response, response,
          invoice_data, item_data, path, nativeCalls, ocrCalls, llmCalls, parses,
          errors, parser, pdf, HAS_DOCLING, ocr_model, message, processing_info,
          results, status_file, temp, job, cursor>>

\* what the actions of LLMPDFParser leave alone
installation == <<parser, pdf, HAS_DOCLING, ocr_model>>

\* the state of a bulk job of main.py
bulk == <<processing_info, results, status_file, temp, job, cursor>>

\* what the parsers leave alone of main.py
server == <<message, bulk>>

\* a request that has not been answered
NoAnswer == [status_code |-> 0, message |-> <<>>]

-----------------------------------------------------------------------------
(* Bounds *)

MaxPages == 2      \* pages of a document
MaxParses == 2     \* parse() calls on one object
MaxFiles == 3      \* files of one bulk upload

-----------------------------------------------------------------------------
(* Python str as a sequence of lexemes *)

EmptyStr == <<>>

Whitespace == {" ", "\n", "SP50"}

\* What the character classes and the number patterns of the parsers find in one lexeme
\* (a number in hundredths, -1 when there is none; a string, "" when there is none):
\*   len     its number of characters
\*   lower   it has a lower-case letter;   upper   it has an upper-case letter
\*   digit0  it starts with a digit
\*   num     the first match of \d+(?:,\d+)*(?:\.\d+)? and of \d[\d,.]*
\*   lead    the match of \d[\d,.]+ at its start
\*   dec     the match of \d[\d,.]+\.\d+ at its start
\*   endnum  the match of \b(\d+(?:,\d+)*(?:\.\d+)?)$
\*   tail    the match of (\d+(?:,\d+)*(?:\.\d+)?)$
\*   nums    re.findall(r"\b(\d+(?:,\d+)*(?:\.\d+)?)\b", x)
\*   pct     the group of (\d+(?:\.\d+)?)%
\*   sku     the first match of \b([A-Z0-9]+(?:_[A-Z0-9]+)*)\b
\*   skualt  the first match of \b([A-Z0-9]+(?:[_-][A-Z0-9]+)*)\b
\*   codes   re.findall(r"([A-Z0-9]+_[A-Z0-9]+)", x)
\*   hsn     the first match of \b(\d{4,8})\b
\*   code6   \b[A-Z0-9_-]{6,}\b matches
\*   digits  re.sub(r'[^\d.]', '', x), character by character
\* Every lexeme of a document has a row; the other lexemes are single characters.
Lexeme(x) ==
    [ len |->
          CASE x = "SP50" -> 50
            [] x = "W40" -> 40
            [] x = "W59" -> 59
            [] x = "W99" -> 99
            [] x = "W100" -> 100
            [] x \in {"Acme", "Bolt", "Date", "Rate", "0.00"} -> 4
            [] x \in {"Buyer", "Grand", "GSTIN", "AB_12"} -> 5
            [] x \in {"Rs.", "Qty"} -> 3
            [] x \in {"Widget", "SKU123", "500.00"} -> 6
            [] x \in {"Supplier", "Quantity", "1,234.50"} -> 8
            [] x = "Total Qty" -> 9
            [] x \in {"Invoice No", "01/02/2024"} -> 10
            [] x \in {"Grand Total", "Description"} -> 11
            [] x = "Total Invoice Value" -> 19
            [] x \in {"29ABCDE1234F1Z5", "07PQRST5678G1Z2", "33LMNOP9012H1Z9"} -> 15
            [] x \in {"INV-001", "5000.00", "5250.00"} -> 7
            [] x \in {"5%", "10"} -> 2
            [] OTHER -> 1,
      lower |-> x \in {"W40", "W59", "W99", "W100", "Acme", "Bolt", "Date", "Rate", "Buyer",
            "Grand", "Rs.", "Qty", "Widget", "Supplier", "Quantity", "Total Qty", "Invoice No",
            "Grand Total", "Description", "Total Invoice Value"},
      upper |-> x \in {"Acme", "Bolt", "Date", "Rate", "Buyer", "Grand", "Rs.", "Qty", "Widget",
            "Supplier", "Quantity", "Total Qty", "Invoice No", "Grand Total", "Description",
            "Total Invoice Value", "GSTIN", "29ABCDE1234F1Z5", "07PQRST5678G1Z2",
            "33LMNOP9012H1Z9", "INV-001", "AB_12", "SKU123"},
      digit0 |-> x \in {"29ABCDE1234F1Z5", "07PQRST5678G1Z2", "33LMNOP9012H1Z9", "01/02/2024",
            "5%", "10", "0.00", "500.00", "5000.00", "5250.00", "1,234.50"},
      num |->
          CASE x = "29ABCDE1234F1Z5" -> 2900
            [] x = "07PQRST5678G1Z2" -> 700
            [] x = "33LMNOP9012H1Z9" -> 3300
            [] x \in {"INV-001", "01/02/2024"} -> 100
            [] x = "AB_12" -> 1200
            [] x = "SKU123" -> 12300
            [] x = "5%" -> 500
            [] x = "10" -> 1000
            [] x = "0.00" -> 0
            [] x = "500.00" -> 50000
            [] x = "5000.00" -> 500000
            [] x = "5250.00" -> 525000
            [] x = "1,234.50" -> 123450
            [] OTHER -> -1,
      lead |->
          CASE x = "29ABCDE1234F1Z5" -> 2900
            [] x = "07PQRST5678G1Z2" -> 700
            [] x = "33LMNOP9012H1Z9" -> 3300
            [] x = "01/02/2024" -> 100
            [] x = "10" -> 1000
            [] x = "0.00" -> 0
            [] x = "500.00" -> 50000
            [] x = "5000.00" -> 500000
            [] x = "5250.00" -> 525000
            [] x = "1,234.50" -> 123450
            [] OTHER -> -1,
      dec |->
          CASE x = "0.00" -> 0
            [] x = "500.00" -> 50000
            [] x = "5000.00" -> 500000
            [] x = "5250.00" -> 525000
            [] x = "1,234.50" -> 123450
            [] OTHER -> -1,
      endnum |->
          CASE x = "INV-001" -> 100
            [] x = "01/02/2024" -> 202400
            [] x = "10" -> 1000
            [] x = "0.00" -> 0
            [] x = "500.00" -> 50000
            [] x = "5000.00" -> 500000
            [] x = "5250.00" -> 525000
            [] x = "1,234.50" -> 123450
            [] OTHER -> -1,
      tail |->
          CASE x = "29ABCDE1234F1Z5" -> 500
            [] x = "07PQRST5678G1Z2" -> 200
            [] x = "33LMNOP9012H1Z9" -> 900
            [] x = "INV-001" -> 100
            [] x = "AB_12" -> 1200
            [] x = "SKU123" -> 12300
            [] x = "01/02/2024" -> 202400
            [] x = "10" -> 1000
            [] x = "0.00" -> 0
            [] x = "500.00" -> 50000
            [] x = "5000.00" -> 500000
            [] x = "5250.00" -> 525000
            [] x = "1,234.50" -> 123450
            [] OTHER -> -1,
      nums |->
          CASE x = "INV-001" -> <<100>>
            [] x = "01/02/2024" -> <<100, 200, 202400>>
            [] x = "5%" -> <<500>>
            [] x = "10" -> <<1000>>
            [] x = "0.00" -> <<0>>
            [] x = "500.00" -> <<50000>>
            [] x = "5000.00" -> <<500000>>
            [] x = "5250.00" -> <<525000>>
            [] x = "1,234.50" -> <<123450>>
            [] OTHER -> <<>>,
      pct |->
          CASE x = "5%" -> 500
            [] OTHER -> -1,
      sku |->
          CASE x \in {"GSTIN", "29ABCDE1234F1Z5", "07PQRST5678G1Z2", "33LMNOP9012H1Z9", "AB_12", "SKU123", "10"} -> x
            [] x = "INV-001" -> "INV"
            [] x = "01/02/2024" -> "01"
            [] x = "5%" -> "5"
            [] x = "0.00" -> "0"
            [] x = "500.00" -> "500"
            [] x = "5000.00" -> "5000"
            [] x = "5250.00" -> "5250"
            [] x = "1,234.50" -> "1"
            [] OTHER -> "",
      skualt |->
          CASE x \in {"GSTIN", "29ABCDE1234F1Z5", "07PQRST5678G1Z2", "33LMNOP9012H1Z9", "INV-001", "AB_12",
                     "SKU123", "10"} -> x
            [] x = "01/02/2024" -> "01"
            [] x = "5%" -> "5"
            [] x = "0.00" -> "0"
            [] x = "500.00" -> "500"
            [] x = "5000.00" -> "5000"
            [] x = "5250.00" -> "5250"
            [] x = "1,234.50" -> "1"
            [] OTHER -> "",
      codes |->
          CASE x = "AB_12" -> <<"AB_12">>
            [] OTHER -> <<>>,
      hsn |->
          CASE x = "01/02/2024" -> "2024"
            [] x = "5000.00" -> "5000"
            [] x = "5250.00" -> "5250"
            [] OTHER -> "",
      code6 |-> x \in {"29ABCDE1234F1Z5", "07PQRST5678G1Z2", "33LMNOP9012H1Z9", "INV-001",
            "SKU123"},
      digits |->
          CASE x = "29ABCDE1234F1Z5" -> <<"2", "9", "1", "2", "3", "4", "1", "5">>
            [] x = "07PQRST5678G1Z2" -> <<"0", "7", "5", "6", "7", "8", "1", "2">>
            [] x = "33LMNOP9012H1Z9" -> <<"3", "3", "9", "0", "1", "2", "1", "9">>
            [] x = "INV-001" -> <<"0", "0", "1">>
            [] x = "AB_12" -> <<"1", "2">>
            [] x = "SKU123" -> <<"1", "2", "3">>
            [] x = "01/02/2024" -> <<"0", "1", "0", "2", "2", "0", "2", "4">>
            [] x = "5%" -> <<"5">>
            [] x = "10" -> <<"1", "0">>
            [] x = "0.00" -> <<"0", ".", "0", "0">>
            [] x = "500.00" -> <<"5", "0", "0", ".", "0", "0">>
            [] x = "5000.00" -> <<"5", "0", "0", "0", ".", "0", "0">>
            [] x = "5250.00" -> <<"5", "2", "5", "0", ".", "0", "0">>
            [] x = "1,234.50" -> <<"1", "2", "3", "4", ".", "5", "0">>
            [] OTHER -> <<>> ]

LexLen(x) == Lexeme(x).len

RECURSIVE PyLen(_)
PyLen(s) == IF s = <<>> THEN 0 ELSE LexLen(Head(s)) + PyLen(Tail(s))

RECURSIVE lstrip(_)
lstrip(s) == IF s # <<>> /\ Head(s) \in Whitespace THEN lstrip(Tail(s)) ELSE s

RECURSIVE rstrip(_)
rstrip(s) ==
    IF s # <<>> /\ s[Len(s)] \in Whitespace THEN rstrip(SubSeq(s, 1, Len(s) - 1)) ELSE s

strip(s) == rstrip(lstrip(s))

RECURSIVE NonWhitespaceCount(_)
NonWhitespaceCount(s) ==
    IF s = <<>> THEN 0
    ELSE (IF Head(s) \in Whitespace THEN 0 ELSE LexLen(Head(s))) + NonWhitespaceCount(Tail(s))

\* bool(s) of a str
Truthy(s) == s # <<>>

-----------------------------------------------------------------------------
(* LLMPDFParser.__init__ *)

None == "None"
KeyArgs == {None, "", "key-A"}

\* llm_provider.lower() (29)
Lower(p) == IF p = "Google" THEN "google" ELSE p

\* a or b
PyOr(a, b) == IF a \notin {None, ""} THEN a ELSE b

\* __init__ without the two "if not self.api_key" tests and the final else
InitKeyNoCheck(provider, key, openai_key, envGoogle, envOpenai) ==
    IF provider = "google" THEN PyOr(key, envGoogle)
    ELSE PyOr(openai_key, envOpenai)
\* __init__ (19-41): the api key it stores, or "ValueError"
InitKey(provider, key, openai_key, envGoogle, envOpenai) ==
    IF provider = "google"
    THEN IF PyOr(key, envGoogle) \in {None, ""} THEN "ValueError" ELSE PyOr(key, envGoogle)
    ELSE IF provider = "openai"
    THEN IF PyOr(openai_key, envOpenai) \in {None, ""} THEN "ValueError"
         ELSE PyOr(openai_key, envOpenai)
    ELSE "ValueError"

Construct ==
    /\ pc = "new"
    /\ \E provider \in {"google", "openai", "azure", "Google"}, key \in KeyArgs, openai_key \in KeyArgs,
          envGoogle \in KeyArgs, envOpenai \in KeyArgs :
         LET k == InitKey(Lower(provider), key, openai_key, envGoogle, envOpenai) IN
         /\ llm_provider' = Lower(provider)
         /\ IF k = "ValueError"
            THEN pc' = "config_error" /\ api_key' = None
            ELSE pc' = "ready" /\ api_key' = k
    /\ UNCHANGED <<installation, server, response>>
    /\ UNCHANGED <<text, native_text, ocr_text, llm_response, invoice_data, item_data,
                   path, nativeCalls, ocrCalls, llmCalls, parses, errors>>

-----------------------------------------------------------------------------
(* Text acquisition: _extract_text_with_pypdf, _extract_text_with_ocr,     *)
(* extract_text                                                            *)

\* what one page gives the extractor
InvoicePage ==
    <<"Acme", "\n", "Invoice No", ":", " ", "INV-001", "\n",
      "29ABCDE1234F1Z5", "\n", "Grand Total", ":", " ", "5000.00">>

\* page.extract_text() of the text layer: a text, None, or an exception
PageOutcomes ==
    [k : {"text"}, s : { <<>>, <<" ">>, <<"W40">>, <<"W59">>, <<"W100">>, InvoicePage }]
    \cup {[k |-> "none", s |-> <<>>], [k |-> "raise", s |-> <<>>]}

\* pytesseract.image_to_string(image): a text or an exception
OcrPageOutcomes ==
    [k : {"text"}, s : { <<>>, <<" ", "W40">>, <<"W100">> }] \cup {[k |-> "raise", s |-> <<>>]}

RECURSIVE SeqsUpTo(_, _)
SeqsUpTo(S, n) ==
    IF n = 0 THEN {<<>>}
    ELSE LET shorter == SeqsUpTo(S, n - 1) IN
         shorter \cup {Append(q, e) : q \in {r \in shorter : Len(r) = n - 1}, e \in S}

\* a document as the extractors see it: whether it can be opened/rendered, and its pages
Documents == [open : BOOLEAN, pages : SeqsUpTo(PageOutcomes, MaxPages)]

\* the same document as convert_from_path and pytesseract see it
OcrDocuments == [open : BOOLEAN, pages : SeqsUpTo(OcrPageOutcomes, MaxPages)]

RECURSIVE JoinPages(_)
JoinPages(pages) ==
    IF pages = <<>> THEN <<>>
    ELSE Head(pages).s \o <<"\n">> \o JoinPages(Tail(pages))

Fails(doc) == ~doc.open \/ \E i \in 1..Len(doc.pages) : doc.pages[i].k # "text"

\* the body of the try block without the except clause
ExtractUnguarded(doc) == IF Fails(doc) THEN "Exception" ELSE JoinPages(doc.pages)
\* _extract_text_with_pypdf (43-58)
_extract_text_with_pypdf(doc) == IF Fails(doc) THEN EmptyStr ELSE JoinPages(doc.pages)

\* _extract_text_with_ocr (60-76)
_extract_text_with_ocr(doc) == IF Fails(doc) THEN EmptyStr ELSE JoinPages(doc.pages)

MinContent == 100

\* OCR only for a native text that is empty after trimming
NeedsOcrWhenEmpty(t) == strip(t) = <<>>
\* extract_text, line 86: len(text.strip()) < 100
NeedsOcr(t) == PyLen(strip(t)) < MinContent

\* keep the OCR output also on a tie
KeepAtLeast(t, o) == IF PyLen(strip(o)) >= PyLen(strip(t)) THEN o ELSE t
\* extract_text, lines 90-91: the OCR output replaces the native one if it is longer
KeepLonger(t, o) == IF PyLen(strip(o)) > PyLen(strip(t)) THEN o ELSE t

-----------------------------------------------------------------------------
(* JSON values as json.loads returns them, and Python values in records.   *)
(* A float is held in hundredths (1234.50 is JFloat(123450)); "bigint" is  *)
(* an int too large for float().                                           *)

JNull == [t |-> "null"]
JBig == [t |-> "bigint"]
JStr(s) == [t |-> "str", v |-> s]
JInt(n) == [t |-> "int", v |-> n]
JFloat(c) == [t |-> "float", v |-> c]
JBool(b) == [t |-> "bool", v |-> b]
JList(q) == [t |-> "list", v |-> q]
JDict(f) == [t |-> "dict", v |-> f]

EmptyDict == JDict(<<>>)

\* bool(x)
PyTruthy(x) ==
    CASE x.t = "null" -> FALSE
      [] x.t = "bigint" -> TRUE
      [] x.t = "str" -> x.v # <<>>
      [] x.t \in {"int", "float"} -> x.v # 0
      [] x.t = "bool" -> x.v
      [] x.t = "list" -> x.v # <<>>
      [] x.t = "dict" -> DOMAIN x.v # {}

\* (key in c) for a str key: "True", "False" or "TypeError"
PyIn(key, c) ==
    CASE c.t = "dict" -> IF key \in DOMAIN c.v THEN "True" ELSE "False"
      [] c.t = "list" -> IF \E i \in 1..Len(c.v) : c.v[i] = JStr(<<key>>) THEN "True" ELSE "False"
      [] c.t = "str" -> IF \E i \in 1..Len(c.v) : c.v[i] = key THEN "True" ELSE "False"
      [] OTHER -> "TypeError"

\* d.get(key, default) of a dict d
DictGet(d, key, default) == IF key \in DOMAIN d.v THEN d.v[key] ELSE default

\* str(x) inside an f-string
PyStr(x) == IF x.t = "str" THEN x.v ELSE <<"repr">>

\* provider.capitalize()
Capitalize(p) ==
    CASE p = "google" -> "Google"
      [] p = "openai" -> "Openai"
      [] OTHER -> p

Digits == {"0", "1", "2", "3", "4", "5", "6", "7", "8", "9"}

RECURSIVE DigitsVal(_)
DigitsVal(s) ==
    LET DigitVal(d) ==
            CASE d = "0" -> 0 [] d = "1" -> 1 [] d = "2" -> 2 [] d = "3" -> 3 [] d = "4" -> 4
              [] d = "5" -> 5 [] d = "6" -> 6 [] d = "7" -> 7 [] d = "8" -> 8 [] d = "9" -> 9
    IN IF s = <<>> THEN 0
       ELSE DigitsVal(SubSeq(s, 1, Len(s) - 1)) * 10 + DigitVal(s[Len(s)])

RECURSIVE Without(_, _)
Without(s, drop) ==
    IF s = <<>> THEN <<>>
    ELSE IF Head(s) \in drop THEN Without(Tail(s), drop)
    ELSE <<Head(s)>> \o Without(Tail(s), drop)

\* position of the first "." of s, or 0
RECURSIVE DotAt(_, _)
DotAt(s, i) == IF i > Len(s) THEN 0 ELSE IF s[i] = "." THEN i ELSE DotAt(s, i + 1)

\* float(s) of a str: [ok |-> FALSE] is ValueError.  Exponents, "inf", "nan" and
\* digit separators are outside the alphabet of the modelled strings; digits after
\* the second decimal place are dropped.
PyFloatOfStr(s) ==
    LET t == strip(s)
        neg == t # <<>> /\ Head(t) = "-"
        u == IF t # <<>> /\ Head(t) \in {"-", "+"} THEN Tail(t) ELSE t
        dot == DotAt(u, 1)
        ip == IF dot = 0 THEN u ELSE SubSeq(u, 1, dot - 1)
        fp == IF dot = 0 THEN <<>> ELSE SubSeq(u, dot + 1, Len(u))
        wellFormed ==
            /\ \A i \in 1..Len(ip) : ip[i] \in Digits
            /\ \A i \in 1..Len(fp) : fp[i] \in Digits
            /\ Len(ip) + Len(fp) > 0
        fp2 == SubSeq(fp \o <<"0", "0">>, 1, 2)
        mag == DigitsVal(ip) * 100 + DigitsVal(fp2)
    IN IF wellFormed THEN [ok |-> TRUE, v |-> IF neg THEN 0 - mag ELSE mag]
       ELSE [ok |-> FALSE, v |-> 0]

\* the body of one iteration of the "Convert numeric values to float" loops
\* (llm_pdf_parser.py 350-357 and 431-438): the new value of the field, and the
\* exception that escapes the inner try, if any
CoerceNoGuard(x) ==
    LET y == IF x.t = "str" THEN JStr(Without(x.v, {"RUPEE", "$", ","})) ELSE x IN
    CASE y.t = "str" ->
             IF PyFloatOfStr(y.v).ok THEN [val |-> JFloat(PyFloatOfStr(y.v).v), exc |-> "none"]
             ELSE [val |-> JFloat(0), exc |-> "none"]
      [] y.t = "int" -> [val |-> JFloat(y.v * 100), exc |-> "none"]
      [] y.t = "float" -> [val |-> y, exc |-> "none"]
      [] y.t = "bool" -> [val |-> JFloat(IF y.v THEN 100 ELSE 0), exc |-> "none"]
      [] y.t = "bigint" -> [val |-> x, exc |-> "OverflowError"]
      [] OTHER -> [val |-> JFloat(0), exc |-> "none"]

Coerce(x) == IF PyTruthy(x) THEN CoerceNoGuard(x) ELSE [val |-> x, exc |-> "none"]

-----------------------------------------------------------------------------
(* The canonical invoice record                                            *)

InvoiceNumericFields ==
    {"Total Quantity", "Subtotal/Taxable Value", "CGST Amount", "SGST Amount",
     "IGST Amount", "CESS Amount", "Additional Charges / Round Off", "Total Invoice Value"}

InvoiceStringFields ==
    {"Serial Number", "Document Type", "Invoice/Document Number", "Invoice/Document Date",
     "Supplier Name", "Supplier GSTIN", "Supplier Address",
     "Buyer Name", "Buyer GSTIN", "Buyer Address",
     "Consignee Name", "Consignee GSTIN", "Consignee Address",
     "PO Number", "SO Number", "STR Number", "Box Count",
     "Reverse Charge", "IRN No", "E-Way Bill No", "Amount in Words", "Additional Remarks"}

CanonicalFields == InvoiceStringFields \cup InvoiceNumericFields

SerialNumber == <<"uuid4">>

\* the default structure of _normalize_invoice_data (285-316)
DefaultInvoice ==
    [f \in CanonicalFields |->
        CASE f = "Serial Number" -> JStr(SerialNumber)
          [] f = "Document Type" -> JStr(<<"Tax Invoice">>)
          [] f = "Reverse Charge" -> JStr(<<"No">>)
          [] f \in InvoiceNumericFields -> JFloat(0)
          [] OTHER -> JStr(EmptyStr)]

\* field_mapping of _normalize_invoice_data (328-339): raw label -> canonical label
InvoiceFieldMapping ==
    [l \in {"Document Type", "Invoice Number", "Invoice Date", "Supplier Name",
            "Supplier GSTIN", "Supplier Address", "Buyer Name", "Buyer GSTIN",
            "Buyer Address", "Total Invoice Value"} |->
        CASE l = "Invoice Number" -> "Invoice/Document Number"
          [] l = "Invoice Date" -> "Invoice/Document Date"
          [] OTHER -> l]

\* the order in which the numeric fields are converted (347-349)
InvoiceNumericOrder ==
    <<"Total Quantity", "Subtotal/Taxable Value", "CGST Amount", "SGST Amount",
      "IGST Amount", "CESS Amount", "Additional Charges / Round Off", "Total Invoice Value">>

\* the conversion loop over the fields keys[i..]: the record, and the exception that
\* left the loop
RECURSIVE CoerceFields(_, _, _)
CoerceFields(rec, keys, i) ==
    IF i > Len(keys) THEN [rec |-> rec, exc |-> "none"]
    ELSE LET c == Coerce(rec[keys[i]]) IN
         IF c.exc # "none" THEN [rec |-> rec, exc |-> c.exc]
         ELSE CoerceFields([rec EXCEPT ![keys[i]] = c.val], keys, i + 1)

WithRemark(rec, remark) == [rec EXCEPT !["Additional Remarks"] = JStr(remark)]

\* every raw key copied under its own name
OverlayEveryKey(rec, raw, mapping) ==
    IF raw.t # "dict" THEN rec ELSE
    [f \in DOMAIN rec \cup DOMAIN raw.v |-> IF f \in DOMAIN raw.v THEN raw.v[f] ELSE rec[f]]

\* lines 342-344 for a dict invoice_data
Overlay(rec, raw, mapping) ==
    IF raw.t # "dict" THEN rec ELSE
    [f \in DOMAIN rec |->
        IF \E l \in DOMAIN mapping : mapping[l] = f /\ l \in DOMAIN raw.v
        THEN raw.v[CHOOSE l \in DOMAIN mapping : mapping[l] = f /\ l \in DOMAIN raw.v]
        ELSE rec[f]]

\* does lines 342-344 raise for this invoice_data?  A str or list raises at the first
\* label it contains (indexing by a str), anything that is not a container at once.
OverlayRaises(raw, mapping) ==
    CASE raw.t = "dict" -> FALSE
      [] raw.t \in {"str", "list"} -> \E l \in DOMAIN mapping : PyIn(l, raw) = "True"
      [] OTHER -> TRUE

\* normalization that does not look for the error marker
NormalizeIgnoringError(resp, provider) ==
    IF resp.t # "dict"
    THEN WithRemark(DefaultInvoice, <<"Error normalizing data: ", "AttributeError">>)
    ELSE WithRemark(CoerceFields(Overlay(DefaultInvoice,
                                         DictGet(resp, "invoice_data", EmptyDict),
                                         InvoiceFieldMapping),
                                 InvoiceNumericOrder, 1).rec,
                    <<"Extracted with ", Capitalize(provider), " LLM">>)

\* _normalize_invoice_data (282-367), for a resp on which lines 319-320 do not raise
_normalize_invoice_data(resp, provider) ==
    IF PyIn("error", resp) = "True" /\ resp.t = "dict"
    THEN WithRemark(DefaultInvoice, <<"Error in LLM extraction: ">> \o PyStr(resp.v["error"]))
    ELSE IF resp.t # "dict"
    THEN WithRemark(DefaultInvoice, <<"Error normalizing data: ", "AttributeError">>)
    ELSE LET raw == DictGet(resp, "invoice_data", EmptyDict) IN
         IF OverlayRaises(raw, InvoiceFieldMapping)
         THEN WithRemark(DefaultInvoice, <<"Error normalizing data: ", "TypeError">>)
         ELSE LET c == CoerceFields(Overlay(DefaultInvoice, raw, InvoiceFieldMapping),
                                    InvoiceNumericOrder, 1) IN
              IF c.exc # "none"
              THEN WithRemark(c.rec, <<"Error normalizing data: ", c.exc>>)
              ELSE WithRemark(c.rec, <<"Extracted with ", Capitalize(provider), " LLM">>)

-----------------------------------------------------------------------------
(* The canonical line item record                                          *)

ItemNumericFields ==
    {"Quantity", "Unit Price", "Discount", "CGST Amount", "SGST Amount", "IGST Amount",
     "Line Total Value"}

ItemFields ==
    {"Invoice Serial Number", "Invoice Number", "Line #", "PO Identifier", "Item/SKU Code",
     "Item Description", "HSN Code", "UOM", "Tax Rate", "CGST Rate", "SGST Rate", "IGST Rate"}
    \cup ItemNumericFields

\* an item that does not carry the number of its invoice
DefaultItemNoNumber(invoice_number, i) ==
    [f \in ItemFields |->
        CASE f = "Invoice Serial Number" -> JStr(SerialNumber)
          [] f = "Invoice Number" -> JStr(EmptyStr)
          [] f = "Line #" -> JInt(i)
          [] f \in ItemNumericFields -> JFloat(0)
          [] OTHER -> JStr(EmptyStr)]

\* the default structure of one item (381-401)
DefaultItem(invoice_number, i) ==
    [f \in ItemFields |->
        CASE f = "Invoice Serial Number" -> JStr(SerialNumber)
          [] f = "Invoice Number" -> invoice_number
          [] f = "Line #" -> JInt(i)
          [] f \in ItemNumericFields -> JFloat(0)
          [] OTHER -> JStr(EmptyStr)]

\* field_mapping of _normalize_line_items (404-421)
ItemFieldMapping ==
    [l \in {"Line Number", "Item/SKU Code", "Item Description", "HSN Code", "Quantity",
            "Unit of Measurement", "Unit Price", "Discount", "Tax Rate", "CGST Rate",
            "SGST Rate", "IGST Rate", "CGST Amount", "SGST Amount", "IGST Amount",
            "Line Total Value"} |->
        CASE l = "Line Number" -> "Line #"
          [] l = "Unit of Measurement" -> "UOM"
          [] OTHER -> l]

\* the order in which the numeric fields of an item are converted (429-430)
ItemNumericOrder ==
    <<"Quantity", "Unit Price", "Discount", "CGST Amount", "SGST Amount", "IGST Amount",
      "Line Total Value">>

\* what the loop over enumerate(line_items) iterates over: the entries of a list,
\* the keys of a dict, the characters of a str
Iterate(x) ==
    CASE x.t = "list" -> x.v
      [] x.t = "str" -> [i \in 1..Len(x.v) |-> JStr(<<x.v[i]>>)]
      [] x.t = "dict" ->
           LET keys == DOMAIN x.v
               order == CHOOSE q \in [1..Cardinality(keys) -> keys] :
                            \A a, b \in 1..Cardinality(keys) : a # b => q[a] # q[b]
           IN [i \in 1..Cardinality(keys) |-> JStr(<<order[i]>>)]
      [] OTHER -> <<>>

\* the loop body 379-440 for the entries i.. of items: the records appended, and
\* whether an entry made the body raise
RECURSIVE NormalizeItems(_, _, _)
NormalizeItems(items, invoice_number, i) ==
    IF i > Len(items) THEN [exc |-> FALSE, recs |-> <<>>]
    ELSE IF OverlayRaises(items[i], ItemFieldMapping) THEN [exc |-> TRUE, recs |-> <<>>]
    ELSE LET c == CoerceFields(Overlay(DefaultItem(invoice_number, i), items[i],
                                       ItemFieldMapping),
                               ItemNumericOrder, 1)
             rest == NormalizeItems(items, invoice_number, i + 1)
         IN IF c.exc # "none" THEN [exc |-> TRUE, recs |-> <<>>]
            ELSE [exc |-> rest.exc, recs |-> <<c.rec>> \o rest.recs]

\* _normalize_line_items (369-446), for a resp on which line 372 does not raise
_normalize_line_items(resp) ==
    IF PyIn("error", resp) # "False" \/ PyIn("line_items", resp) = "False" THEN <<>>
    ELSE IF resp.t # "dict" THEN <<>>
    ELSE LET line_items == DictGet(resp, "line_items", JList(<<>>))
             inv == DictGet(resp, "invoice_data", EmptyDict)
         IN IF line_items.t \notin {"list", "str", "dict"} THEN <<>>
            ELSE IF Len(Iterate(line_items)) = 0 THEN <<>>
            ELSE IF inv.t # "dict" THEN <<>>
            ELSE LET r == NormalizeItems(Iterate(line_items),
                                         DictGet(inv, "Invoice Number", JStr(EmptyStr)), 1)
                 IN IF r.exc THEN <<>> ELSE r.recs

-----------------------------------------------------------------------------
(* The LLM call: _call_llm_api, _call_google_gemini_api, _call_openai_api  *)

\* JSON documents a provider may put in its reply; each is one lexeme of the reply text
GoodItem(sku, qty) ==
    JDict(("Item/SKU Code" :> JStr(<<sku>>)) @@ ("Quantity" :> qty) @@
          ("Unit Price" :> JStr(<<"RUPEE", "5", "0", "0", ".", "0", "0">>)))

JsonDocument(name) ==
    CASE name = "doc:full" ->
           JDict([ invoice_data |->
                     JDict(("Invoice Number" :> JStr(<<"INV-001">>)) @@
                           ("Supplier Name" :> JStr(<<"Acme">>)) @@
                           ("Total Invoice Value" :>
                                JStr(<<"RUPEE", "1", ",", "2", "3", "4", ".", "5", "0">>))),
                   line_items |-> JList(<<GoodItem("SKU1", JInt(10)),
                                          GoodItem("SKU2", JStr(<<"2">>))>>) ])
      [] name = "doc:nulls" ->
           JDict([ invoice_data |->
                     JDict(("Invoice Number" :> JNull) @@ ("Total Invoice Value" :> JNull)),
                   line_items |-> JList(<<GoodItem("SKU1", JNull)>>) ])
      [] name = "doc:header-only" ->
           JDict([ invoice_data |-> JDict("Invoice Number" :> JStr(<<"INV-001">>)) ])
      [] name = "doc:error" -> JDict([ error |-> JStr(<<"quota exceeded">>) ])
      [] name = "doc:empty" -> EmptyDict
      [] name = "doc:number" -> JInt(42)
      [] name = "doc:null" -> JNull
      [] name = "doc:true" -> JBool(TRUE)
      [] name = "doc:string" -> JStr(<<"abc">>)
      [] name = "doc:error-string" -> JStr(<<"an ", "error">>)
      [] name = "doc:array" -> JList(<<>>)
      [] name = "doc:error-array" -> JList(<<JStr(<<"error">>)>>)

JsonDocuments ==
    {"doc:full", "doc:nulls", "doc:header-only", "doc:error", "doc:empty", "doc:number",
     "doc:null", "doc:true", "doc:string", "doc:error-string", "doc:array", "doc:error-array"}

\* json.loads(s): the value, or ok = FALSE for JSONDecodeError
JsonLoads(s) ==
    IF Len(strip(s)) = 1 /\ strip(s)[1] \in JsonDocuments
    THEN [ok |-> TRUE, v |-> JsonDocument(strip(s)[1])]
    ELSE [ok |-> FALSE, v |-> JNull]

\* "FENCE" is the lexeme of three backticks
\* re.sub(r'^FENCEjson', '', s)
StripJsonFence(s) ==
    IF Len(s) >= 2 /\ s[1] = "FENCE" /\ s[2] = "json" THEN SubSeq(s, 3, Len(s)) ELSE s

\* re.sub(r'^FENCE', '', s)
StripOpenFence(s) == IF s # <<>> /\ Head(s) = "FENCE" THEN Tail(s) ELSE s

\* re.sub(r'FENCE$', '', s): $ matches at the end and before a final newline
StripCloseFence(s) ==
    IF s # <<>> /\ s[Len(s)] = "FENCE" THEN SubSeq(s, 1, Len(s) - 1)
    ELSE IF Len(s) >= 2 /\ s[Len(s)] = "\n" /\ s[Len(s) - 1] = "FENCE"
    THEN SubSeq(s, 1, Len(s) - 2) \o <<"\n">>
    ELSE s

ErrorResult(msg) == JDict([error |-> JStr(msg)])

\* what the HTTP exchange gives: requests.post raising, a non-200 status, a body that
\* is not JSON, a JSON body without the expected members, or a reply text
\* _call_google_gemini_api (132-209)
_call_google_gemini_api(outcome) ==
    CASE outcome.kind = "transport" -> ErrorResult(<<"API request failed: ", "ConnectionError">>)
      [] outcome.kind = "status" -> ErrorResult(<<"API error: ", "500">>)
      [] outcome.kind = "body" -> ErrorResult(<<"API request failed: ", "JSONDecodeError">>)
      [] outcome.kind = "shape" -> ErrorResult(<<"Unexpected API response format">>)
      [] outcome.kind = "text" ->
           LET json_str == strip(StripCloseFence(StripJsonFence(outcome.text))) IN
           IF JsonLoads(json_str).ok THEN JsonLoads(json_str).v
           ELSE ErrorResult(<<"Failed to parse JSON: ", "JSONDecodeError">>)

\* _call_openai_api (211-280)
_call_openai_api(outcome) ==
    CASE outcome.kind = "transport" ->
           ErrorResult(<<"OpenAI API request failed: ", "ConnectionError">>)
      [] outcome.kind = "status" -> ErrorResult(<<"API error: ", "500">>)
      [] outcome.kind = "body" ->
           ErrorResult(<<"OpenAI API request failed: ", "JSONDecodeError">>)
      [] outcome.kind = "shape" -> ErrorResult(<<"Unexpected OpenAI response format">>)
      [] outcome.kind = "text" ->
           LET json_str ==
                   strip(StripCloseFence(StripOpenFence(StripJsonFence(outcome.text)))) IN
           IF JsonLoads(json_str).ok THEN JsonLoads(json_str).v
           ELSE ErrorResult(<<"Failed to parse JSON from OpenAI response: ", "JSONDecodeError">>)

\* _call_llm_api (123-130)
_call_llm_api(provider, outcome) ==
    IF provider = "google" THEN _call_google_gemini_api(outcome)
    ELSE IF provider = "openai" THEN _call_openai_api(outcome)
    ELSE ErrorResult(<<"Unsupported LLM provider: ", provider>>)

ReplyTexts ==
    {<<d>> : d \in JsonDocuments \cup {"not json"}}
    \cup {<<"FENCE", "json", "\n", d, "\n", "FENCE">> : d \in {"doc:full", "doc:number"}}
    \cup { <<"FENCE", "\n", "doc:full", "\n", "FENCE">>,
           <<"\n", "FENCE", "json", "\n", "doc:full", "\n", "FENCE">>,
           <<"FENCE", "json", "\n", "doc:full", "\n", "FENCE", "\n">> }

ProviderOutcomes ==
    [kind : {"transport", "status", "body", "shape"}, text : {<<>>}]
    \cup [kind : {"text"}, text : ReplyTexts]

-----------------------------------------------------------------------------
(* Regular expressions over lexemes.  A search returns the match that      *)
(* starts at the leftmost lexeme: [ok |-> TRUE, cap |-> group 1].          *)

NoMatch == [ok |-> FALSE, cap |-> <<>>]
Match(c) == [ok |-> TRUE, cap |-> c]

Min(S) == CHOOSE i \in S : \A j \in S : i <= j

\* re.search(pattern, s) for a pattern whose match from lexeme i is at[i]: the match
\* at the leftmost position
Search(at) ==
    IF \E i \in 1..Len(at) : at[i].ok THEN at[Min({i \in 1..Len(at) : at[i].ok})] ELSE NoMatch

\* \s* from position i: the position after the blanks
RECURSIVE SkipWs(_, _)
SkipWs(s, i) == IF i <= Len(s) /\ s[i] \in Whitespace THEN SkipWs(s, i + 1) ELSE i

\* x? from position i, for a lexeme x of a set
Opt(s, i, X) == IF i <= Len(s) /\ s[i] \in X THEN i + 1 ELSE i

GstinShaped == {"29ABCDE1234F1Z5", "07PQRST5678G1Z2", "33LMNOP9012H1Z9"}

\* the longest prefix of a lexeme made of characters of [A-Za-z0-9/\-_]; "" if none
IdentPrefix(x) ==
    LET \* lexemes made only of characters of [A-Za-z0-9/\-_]
        IdentLexemes ==
            GstinShaped \cup Digits \cup
            {"W40", "W59", "W100", "INV-001", "DOC-7", "Acme", "Bolt", "10", "01/02/2024",
             "01Jan2024", "Mensa/KA/BLR/830", "Supplier", "Seller", "From", "Buyer", "Customer",
             "Consignee", "GSTIN", "Quantity", "Total", "Date", "Name", "json", "SKU123",
             "Widget", "Myntra", "AB_12"}
    IN
    CASE x \in IdentLexemes -> x
      [] x = "5000.00" -> "5000"
      [] x = "1,234.50" -> "1"
      [] x = "0.00" -> "0"
      [] x = "500.00" -> "500"
      [] x = "5250.00" -> "5250"
      [] x \in {"Invoice No", "Invoice Number", "Invoice Date"} -> "Invoice"
      [] x = "Document No" -> "Document"
      [] x = "Grand Total" -> "Grand"
      [] x = "Sub Total" -> "Sub"
      [] x \in {"Total Qty", "Total Amount", "Total Invoice Value"} -> "Total"
      [] x = "Tax Invoice" -> "Tax"
      [] x = "Delivery Challan" -> "Delivery"
      [] x = "Legal Name" -> "Legal"
      [] x = "Rs." -> "Rs"
      [] x = "5%" -> "5"
      [] x = "Bill To" -> "Bill"
      [] x = "Ship To" -> "Ship"
      [] x = "SVS Warehouse" -> "SVS"
      [] x = "Myntra Jabong India Pvt Ltd" -> "Myntra"
      [] x = "Details of Receiver" -> "Details"
      [] x = "Date of Supply" -> "Date"
      [] OTHER -> ""

\* ([A-Za-z0-9/\-_]+) from position i: the captured lexemes, <<>> when it does not match
RECURSIVE IdentCapture(_, _)
IdentCapture(s, i) ==
    IF i > Len(s) \/ IdentPrefix(s[i]) = "" THEN <<>>
    ELSE IF IdentPrefix(s[i]) # s[i] THEN <<IdentPrefix(s[i])>>
    ELSE <<s[i]>> \o IdentCapture(s, i + 1)

CaptureIdent(s, i) == IF IdentCapture(s, i) = <<>> THEN NoMatch ELSE Match(IdentCapture(s, i))

\* the end of the line that position i is on: the last position before the next newline
RECURSIVE LineEnd(_, _)
LineEnd(s, i) == IF i + 1 > Len(s) \/ s[i + 1] = "\n" THEN i ELSE LineEnd(s, i + 1)

\* \s*([^\n]+) from position i, and .strip() of the group.  When only blanks follow,
\* the group backs off onto a blank that is not a newline.
CaptureLine(s, i) ==
    LET k == SkipWs(s, i) IN
    IF k <= Len(s) THEN Match(strip(SubSeq(s, k, LineEnd(s, k))))
    ELSE IF \E p \in i..Len(s) : s[p] # "\n" THEN Match(<<>>)
    ELSE NoMatch

\* s.split('\n')
RECURSIVE SplitLines(_)
SplitLines(s) ==
    IF \A i \in 1..Len(s) : s[i] # "\n" THEN <<s>>
    ELSE LET n == Min({i \in 1..Len(s) : s[i] = "\n"}) IN
         <<SubSeq(s, 1, n - 1)>> \o SplitLines(SubSeq(s, n + 1, Len(s)))

Contains(s, X) == \E i \in 1..Len(s) : s[i] \in X

\* values of the shape \d{1,2}[-/\.]\d{1,2}[-/\.]\d{2,4} and \d{1,2}[A-Za-z]{3}\d{2,4}
DateShaped == {"01/02/2024"}
DateMonShaped == {"01Jan2024"}

\* values of the shape \d[\d,.]+\.\d+
DecimalShaped == {"5000.00", "1,234.50", "500.00", "5250.00"}

\* float(x.replace(',', '')) of a number lexeme, in hundredths
NumberCents(x) ==
    CASE x = "5000.00" -> 500000
      [] x = "1,234.50" -> 123450
      [] x = "500.00" -> 50000
      [] x = "5250.00" -> 525000
      [] x = "0.00" -> 0
      [] x = "10" -> 1000
      [] x = "5" -> 500
      [] OTHER -> 0

-----------------------------------------------------------------------------
(* LLMPDFParser._extract_basic_info_from_text (448-574)                    *)

FallbackFields ==
    {"Serial Number", "Document Type", "Invoice/Document Number", "Invoice/Document Date",
     "Supplier Name", "Supplier GSTIN", "Supplier Address", "Buyer Name", "Buyer GSTIN",
     "Buyer Address", "Total Invoice Value", "Additional Remarks"}

FallbackRemark(provider) ==
    <<"Extracted with ", "fallback", " method due to ", Capitalize(provider), " API failure">>

\* 470-473: lexemes whose lower-case form contains "tax invoice", "delivery challan"
FbDocumentType(s) ==
    IF Contains(s, {"Tax Invoice"}) THEN <<"Tax Invoice">>
    ELSE IF Contains(s, {"Delivery Challan"}) THEN <<"Delivery Challan">>
    ELSE <<"Tax Invoice">>

\* the last pattern of the list that matches
LastOf(ms) ==
    IF \E i \in 1..Len(ms) : ms[i].ok
    THEN ms[CHOOSE i \in 1..Len(ms) : ms[i].ok /\ \A j \in 1..Len(ms) : ms[j].ok => j <= i]
    ELSE NoMatch
\* does s hold the lexemes of q in a row?
HasRun(s, q) == \E i \in 1..Len(s) : i + Len(q) - 1 <= Len(s) /\ SubSeq(s, i, i + Len(q) - 1) = q

\* the loop over an ordered pattern list: the first pattern that matches
FirstOf(ms) ==
    IF \E i \in 1..Len(ms) : ms[i].ok
    THEN ms[Min({i \in 1..Len(ms) : ms[i].ok})]
    ELSE NoMatch

\* 476-485
FbInvoiceNumber(s) ==
    LET \* Invoice\s*No\.?\s*:?\s*([A-Za-z0-9/\-_]+)
        InvoiceNoAt(t, i) ==
            IF t[i] = "Invoice No"
            THEN CaptureIdent(t, SkipWs(t, Opt(t, SkipWs(t, Opt(t, i + 1, {"."})), {":"})))
            ELSE NoMatch
        \* Document\s*No\s*:?\s*([A-Za-z0-9/\-_]+)
        DocumentNoAt(t, i) ==
            IF t[i] = "Document No"
            THEN CaptureIdent(t, SkipWs(t, Opt(t, SkipWs(t, i + 1), {":"})))
            ELSE NoMatch
        \* (Mensa/[A-Z]{2}/[A-Z]{3}/\d+)
        MensaAt(t, i) == IF t[i] = "Mensa/KA/BLR/830" THEN Match(<<t[i]>>) ELSE NoMatch
    IN FirstOf(<<Search([pos \in 1..Len(s) |-> InvoiceNoAt(s, pos)]),
                 Search([pos \in 1..Len(s) |-> DocumentNoAt(s, pos)]),
                 Search([pos \in 1..Len(s) |-> MensaAt(s, pos)])>>).cap

\* label \s* : \s* (value of a shape)
LabelColonValue(s, i, Labels, Values) ==
    IF s[i] \in Labels
    THEN LET c == SkipWs(s, i + 1)
             v == SkipWs(s, c + 1) IN
         IF c <= Len(s) /\ s[c] = ":" /\ v <= Len(s) /\ s[v] \in Values
         THEN Match(<<s[v]>>) ELSE NoMatch
    ELSE NoMatch

\* 488-498; a pattern that starts with Date also matches at the end of Invoice Date
FbDate(s) ==
    LET Date1At(t, i) == LabelColonValue(t, i, {"Invoice Date"}, DateShaped)
        Date2At(t, i) == LabelColonValue(t, i, {"Date", "Invoice Date"}, DateShaped)
        Date3At(t, i) == LabelColonValue(t, i, {"Date", "Invoice Date"}, DateMonShaped)
        Date4At(t, i) == LabelColonValue(t, i, {"Date of Supply"}, DateShaped)
    IN FirstOf(<<Search([pos \in 1..Len(s) |-> Date1At(s, pos)]),
                 Search([pos \in 1..Len(s) |-> Date2At(s, pos)]),
                 Search([pos \in 1..Len(s) |-> Date3At(s, pos)]),
                 Search([pos \in 1..Len(s) |-> Date4At(s, pos)])>>).cap

\* 502-507: the first of the first three lines that is not blank and does not contain
\* "invoice" in any case
FbSupplierName(s) ==
    LET lines == SplitLines(s)
        withInvoice == {"Invoice No", "Invoice Number", "Invoice Date", "Tax Invoice",
                        "Total Invoice Value"}
        cand == {i \in 1..Len(lines) :
                    i <= 3 /\ strip(lines[i]) # <<>> /\ ~Contains(lines[i], withInvoice)}
    IN IF Len(lines) > 1 /\ cand # {} THEN strip(lines[Min(cand)]) ELSE <<>>

\* 510-541
FbBuyerName(s) ==
    LET BuyerLabels == {"Buyer", "Bill To", "Customer", "Ship To", "Billed To"}
        \* (?:Buyer|Bill To|Customer|Ship To|Billed To)\s*:\s*([^\n]+)
        Buyer1At(t, i) ==
            IF t[i] \in BuyerLabels /\ SkipWs(t, i + 1) <= Len(t) /\ t[SkipWs(t, i + 1)] = ":"
            THEN CaptureLine(t, SkipWs(t, i + 1) + 1)
            ELSE NoMatch
        \* (?:Buyer|Bill To|Customer|Ship To|Billed To)\s*Name\s*:\s*([^\n]+)
        Buyer2At(t, i) ==
            LET n == SkipWs(t, i + 1)
                c == SkipWs(t, n + 1) IN
            IF t[i] \in BuyerLabels /\ n <= Len(t) /\ t[n] = "Name" /\ c <= Len(t) /\ t[c] = ":"
            THEN CaptureLine(t, c + 1)
            ELSE NoMatch
        \* Details\s*of\s*Receiver\s*[^:]*:\s*([^\n]+)
        Buyer3At(t, i) ==
            IF t[i] = "Details of Receiver" /\ \E c \in (i + 1)..Len(t) : t[c] = ":"
            THEN CaptureLine(t, Min({c \in (i + 1)..Len(t) : t[c] = ":"}) + 1)
            ELSE NoMatch
        \* Legal\s*Name\s*:?\s*([^\n]+): when nothing follows the colon the group is
        \* the colon
        LegalNameAt(t, i) ==
            LET c == SkipWs(t, i + 1) IN
            IF t[i] # "Legal Name" THEN NoMatch
            ELSE IF c <= Len(t) /\ t[c] = ":"
            THEN IF CaptureLine(t, c + 1).ok THEN CaptureLine(t, c + 1)
                 ELSE Match(strip(SubSeq(t, c, LineEnd(t, c))))
            ELSE CaptureLine(t, i + 1)
        pat == FirstOf(<<Search([pos \in 1..Len(s) |-> Buyer1At(s, pos)]),
                         Search([pos \in 1..Len(s) |-> Buyer2At(s, pos)]),
                         Search([pos \in 1..Len(s) |-> Buyer3At(s, pos)])>>)
        legal == Search([pos \in 1..Len(s) |-> LegalNameAt(s, pos)])
        lines == SplitLines(s)
        \* lines that contain one of the known_buyers words (527)
        known == {i \in 1..Len(lines) :
                     Contains(lines[i], {"Myntra", "Myntra Jabong India Pvt Ltd"})}
        afterLegal == IF legal.ok THEN legal.cap ELSE pat.cap
        afterKnown == IF known # {} THEN strip(lines[Min(known)]) ELSE afterLegal
    IN IF Contains(s, {"Myntra Jabong India Pvt Ltd"})
       THEN <<"Myntra Jabong India Pvt Ltd">>
       ELSE afterKnown

\* re.findall(gstin_pattern, s)
RECURSIVE FindAllGstin(_)
FindAllGstin(s) ==
    IF s = <<>> THEN <<>>
    ELSE (IF Head(s) \in GstinShaped THEN <<Head(s)>> ELSE <<>>) \o FindAllGstin(Tail(s))

\* 544-549: the n-th GSTIN of the text when there are that many
FbGstin(s, n) == IF Len(FindAllGstin(s)) >= n THEN <<FindAllGstin(s)[n]>> ELSE <<>>

\* 552-555
FbSupplierAddress(s) ==
    LET \* address.replace('\n', ' ')
        NewlinesToBlanks(t) == [i \in 1..Len(t) |-> IF t[i] = "\n" THEN " " ELSE t[i]]
        \* (?:\n[^\n]+){1,3} from position i (a newline): the position of the last
        \* lexeme matched, taking as many lines as it can, up to n
        RECURSIVE MoreLines(_, _, _)
        MoreLines(t, i, n) ==
            IF n > 0 /\ i + 1 <= Len(t) /\ t[i] = "\n" /\ t[i + 1] # "\n"
            THEN MoreLines(t, LineEnd(t, i + 1) + 1, n - 1)
            ELSE i - 1
        \* (SVS\s*Warehouse[^\n]+(?:\n[^\n]+){1,3})
        AddressAt(t, i) ==
            IF t[i] = "SVS Warehouse" /\ i + 1 <= Len(t) /\ t[i + 1] # "\n"
            THEN LET e == LineEnd(t, i + 1) IN
                 IF MoreLines(t, e + 1, 3) > e
                 THEN Match(strip(NewlinesToBlanks(SubSeq(t, i, MoreLines(t, e + 1, 3)))))
                 ELSE NoMatch
            ELSE NoMatch
    IN Search([pos \in 1..Len(s) |-> AddressAt(s, pos)]).cap

\* label \s*(?:in\s*INR)?\s*:?\s*(?:RUPEE|Rs\.?)?\s*(\d[\d,.]+\.\d+)
TotalAt(s, i, Labels, Values) ==
    IF s[i] \in Labels
    THEN LET a == SkipWs(s, Opt(s, SkipWs(s, i + 1), {"in INR"}))
             b == SkipWs(s, Opt(s, a, {":"}))
             c == SkipWs(s, Opt(s, b, {"RUPEE", "Rs.", "Rs"}))
         IN IF c <= Len(s) /\ s[c] \in Values THEN Match(<<s[c]>>) ELSE NoMatch
    ELSE NoMatch

\* 558-572; the pattern Total... also matches at the end of Grand Total and Sub Total
FbTotalInvoiceValue(s) ==
    LET Total1At(t, i) == TotalAt(t, i, {"Total Invoice Value"}, DecimalShaped)
        Total2At(t, i) == TotalAt(t, i, {"Grand Total"}, DecimalShaped)
        Total3At(t, i) == TotalAt(t, i, {"Total Amount"}, DecimalShaped)
        Total4At(t, i) == TotalAt(t, i, {"Total", "Grand Total", "Sub Total"}, DecimalShaped)
        m == FirstOf(<<Search([pos \in 1..Len(s) |-> Total1At(s, pos)]),
                       Search([pos \in 1..Len(s) |-> Total2At(s, pos)]),
                       Search([pos \in 1..Len(s) |-> Total3At(s, pos)]),
                       Search([pos \in 1..Len(s) |-> Total4At(s, pos)])>>)
    IN IF m.ok THEN JFloat(NumberCents(m.cap[1])) ELSE JFloat(0)

_extract_basic_info_from_text(s, provider) ==
    [f \in FallbackFields |->
        CASE f = "Serial Number" -> JStr(SerialNumber)
          [] f = "Document Type" -> JStr(FbDocumentType(s))
          [] f = "Invoice/Document Number" -> JStr(FbInvoiceNumber(s))
          [] f = "Invoice/Document Date" -> JStr(FbDate(s))
          [] f = "Supplier Name" -> JStr(FbSupplierName(s))
          [] f = "Supplier GSTIN" -> JStr(FbGstin(s, 1))
          [] f = "Supplier Address" -> JStr(FbSupplierAddress(s))
          [] f = "Buyer Name" -> JStr(FbBuyerName(s))
          [] f = "Buyer GSTIN" -> JStr(FbGstin(s, 2))
          [] f = "Buyer Address" -> JStr(EmptyStr)
          [] f = "Total Invoice Value" -> FbTotalInvoiceValue(s)
          [] f = "Additional Remarks" -> JStr(FallbackRemark(provider))]

\* parse, lines 581-583: start of a parse() call
ParseBegin ==
    /\ pc \in {"ready", "done"}
    /\ parses < MaxParses
    /\ parses' = parses + 1
    /\ nativeCalls' = 0 /\ ocrCalls' = 0 /\ llmCalls' = 0 /\ errors' = {}
    /\ pc' = IF Truthy(text) THEN "text_done" ELSE "extract"
    /\ invoice_data' = None /\ item_data' = None /\ path' = None
    /\ llm_response' = None
    /\ response' = None
    /\ message' = NoAnswer
    /\ UNCHANGED <<installation, bulk>>
    /\ UNCHANGED <<llm_provider, api_key, text, native_text, ocr_text>>

\* extract_text, line 83
NativeExtract ==
    /\ pc = "extract"
    /\ \E doc \in Documents :
         LET t == _extract_text_with_pypdf(doc) IN
         /\ IF t = "Exception"
            THEN pc' = "extract_raised" /\ native_text' = None
            ELSE pc' = "native_done" /\ native_text' = t
         /\ errors' = IF Fails(doc) THEN errors \cup {"PyPDF2"} ELSE errors
    /\ nativeCalls' = nativeCalls + 1
    /\ ocr_text' = None
    /\ UNCHANGED <<installation, server, response>>
    /\ UNCHANGED <<llm_provider, api_key, text, llm_response, invoice_data, item_data,
                   path, ocrCalls, llmCalls, parses>>

\* extract_text, lines 86-93, the branch that runs OCR
OcrExtract ==
    /\ pc = "native_done"
    /\ NeedsOcr(native_text)
    /\ \E doc \in OcrDocuments :
         LET o == _extract_text_with_ocr(doc) IN
         /\ IF o = "Exception"
            THEN pc' = "extract_raised" /\ ocr_text' = None /\ text' = text
            ELSE /\ pc' = "text_done"
                 /\ ocr_text' = o
                 /\ text' = KeepLonger(native_text, o)
         /\ errors' = IF Fails(doc) THEN errors \cup {"OCR"} ELSE errors
    /\ ocrCalls' = ocrCalls + 1
    /\ UNCHANGED <<installation, server, response>>
    /\ UNCHANGED <<llm_provider, api_key, native_text, llm_response, invoice_data,
                   item_data, path, nativeCalls, llmCalls, parses>>

\* extract_text, lines 86-93, the branch that skips OCR
SkipOcr ==
    /\ pc = "native_done"
    /\ ~NeedsOcr(native_text)
    /\ pc' = "text_done"
    /\ text' = native_text
    /\ UNCHANGED <<installation, server, response>>
    /\ UNCHANGED <<llm_provider, api_key, native_text, ocr_text, llm_response,
                   invoice_data, item_data, path, nativeCalls, ocrCalls, llmCalls, parses,
                   errors>>

\* parse, lines 586-593: no text
\* the record of lines 588-593
MinimalRecord ==
    ("Serial Number" :> JStr(SerialNumber)) @@
    ("Document Type" :> JStr(<<"Tax Invoice">>)) @@
    ("Invoice/Document Number" :> JStr(EmptyStr)) @@
    ("Additional Remarks" :> JStr(<<"Failed to extract text from PDF">>))

ParseFailed ==
    /\ pc = "text_done"
    /\ ~Truthy(text)
    /\ invoice_data' = MinimalRecord
    /\ item_data' = <<>>
    /\ path' = "failed"
    /\ pc' = "done"
    /\ native_text' = None /\ ocr_text' = None
    /\ UNCHANGED <<installation, server, response>>
    /\ UNCHANGED <<llm_provider, api_key, text, llm_response, nativeCalls, ocrCalls,
                   llmCalls, parses, errors>>

\* parse, lines 598-603
CallLLM ==
    /\ pc = "text_done"
    /\ Truthy(text)
    /\ \E outcome \in ProviderOutcomes :
         /\ response' = outcome
         /\ llm_response' = _call_llm_api(llm_provider, outcome)
    /\ llmCalls' = llmCalls + 1
    /\ pc' = "llm_done"
    /\ native_text' = None /\ ocr_text' = None
    /\ UNCHANGED <<installation, server>>
    /\ UNCHANGED <<llm_provider, api_key, text, invoice_data, item_data, path,
                   nativeCalls, ocrCalls, parses, errors>>

\* no test for the error marker
NoErrorCheck(resp) == "normalize"
\* how line 606-607 ends: "fallback", "normalize", or "TypeError" when the test
\* ("error" in llm_response) or the subscript llm_response['error'] raises
ErrorCheck(resp) ==
    IF PyIn("error", resp) = "TypeError" THEN "TypeError"
    ELSE IF PyIn("error", resp) = "False" THEN "normalize"
    ELSE IF resp.t = "dict" THEN "fallback"
    ELSE "TypeError"

\* an error result answered by a second call of the provider
RetryOnError ==
    /\ pc = "llm_done"
    /\ ErrorCheck(llm_response) = "fallback"
    /\ pc' = "text_done"
    /\ UNCHANGED <<installation, server, response>>
    /\ UNCHANGED <<llm_provider, api_key, text, native_text, ocr_text, llm_response,
                   invoice_data, item_data, path, nativeCalls, ocrCalls, llmCalls, parses,
                   errors>>

\* a fallback that also returns an item for the text
FallbackWithItems ==
    /\ pc = "llm_done"
    /\ ErrorCheck(llm_response) = "fallback"
    /\ invoice_data' = _extract_basic_info_from_text(text, llm_provider)
    /\ item_data' = <<DefaultItem(invoice_data'["Invoice/Document Number"], 1)>>
    /\ path' = "fallback"
    /\ pc' = "done"
    /\ UNCHANGED <<installation, server, response>>
    /\ UNCHANGED <<llm_provider, api_key, text, native_text, ocr_text, llm_response,
                   nativeCalls, ocrCalls, llmCalls, parses, errors>>

\* parse, lines 606-612
Fallback ==
    /\ pc = "llm_done"
    /\ ErrorCheck(llm_response) = "fallback"
    /\ invoice_data' = _extract_basic_info_from_text(text, llm_provider)
    /\ item_data' = <<>>
    /\ path' = "fallback"
    /\ pc' = "done"
    /\ UNCHANGED <<installation, server, response>>
    /\ UNCHANGED <<llm_provider, api_key, text, native_text, ocr_text, llm_response,
                   nativeCalls, ocrCalls, llmCalls, parses, errors>>

\* parse, lines 614-618
Normalize ==
    /\ pc = "llm_done"
    /\ ErrorCheck(llm_response) = "normalize"
    /\ invoice_data' = _normalize_invoice_data(llm_response, llm_provider)
    /\ item_data' = _normalize_line_items(llm_response)
    /\ path' = "normalized"
    /\ pc' = "done"
    /\ UNCHANGED <<installation, server, response>>
    /\ UNCHANGED <<llm_provider, api_key, text, native_text, ocr_text, llm_response,
                   nativeCalls, ocrCalls, llmCalls, parses, errors>>

\* parse, line 606 or 607 raising: parse() ends with an exception
ParseRaises ==
    /\ pc = "llm_done"
    /\ ErrorCheck(llm_response) = "TypeError"
    /\ path' = "TypeError"
    /\ pc' = "parse_raised"
    /\ UNCHANGED <<installation, server, response>>
    /\ UNCHANGED <<llm_provider, api_key, text, native_text, ocr_text, llm_response,
                   invoice_data, item_data, nativeCalls, ocrCalls, llmCalls, parses, errors>>

\* main.py upload_invoice, line 245: "Fallback" in invoice_data.get("Additional Remarks", "")
using_fallback(record) ==
    LET remarks == IF "Additional Remarks" \in DOMAIN record
                   THEN record["Additional Remarks"].v ELSE <<>> IN
    Contains(remarks, {"Fallback"})

\* main.py upload_invoice, lines 255-264: the answer for a parse that returned
ParsingResponse(record, provider) ==
    [status_code |-> 200,
     message |-> IF using_fallback(record)
                 THEN <<"Invoice processed with ", "fallback", " method (regex). ",
                        "For better results, please provide a valid ",
                        Capitalize(provider), " API key.">>
                 ELSE <<"Invoice processed ", "successfully", " with ",
                        Capitalize(provider), " LLM">>]

\* main.py upload_invoice, lines 266-267: the answer for a parse that raised
HTTPException(provider) ==
    [status_code |-> 500,
     message |-> <<"Error processing invoice with ", provider, " API: ", path>>]

\* main.py upload_invoice, lines 242-267: what follows parser.parse()
upload_invoice ==
    /\ pc \in {"done", "parse_raised"}
    /\ message = NoAnswer
    /\ message' = IF pc = "parse_raised"
                  THEN HTTPException(llm_provider)
                  ELSE ParsingResponse(invoice_data, llm_provider)
    /\ UNCHANGED <<installation, bulk, response>>
    /\ UNCHANGED <<pc, llm_provider, api_key, text, native_text, ocr_text, llm_response,
                   invoice_data, item_data, path, nativeCalls, ocrCalls, llmCalls, parses,
                   errors>>

Init ==
    /\ message = NoAnswer /\ processing_info = <<>> /\ results = <<>> /\ status_file = None
    /\ temp = {} /\ job = [at |-> "idle", provider |-> "None"] /\ cursor = 0
    /\ parser = "LLMPDFParser" /\ pdf = None /\ HAS_DOCLING = FALSE /\ ocr_model = None
    /\ pc = "new"
    /\ llm_provider = None /\ api_key = None
    /\ text = EmptyStr
    /\ native_text = None /\ ocr_text = None
    /\ llm_response = None /\ response = None
    /\ invoice_data = None /\ item_data = None /\ path = None
    /\ nativeCalls = 0 /\ ocrCalls = 0 /\ llmCalls = 0
    /\ parses = 0
    /\ errors = {}

Next ==
    \/ Construct
    \/ ParseBegin
    \/ NativeExtract
    \/ OcrExtract
    \/ SkipOcr
    \/ ParseFailed
    \/ CallLLM
    \/ Fallback
    \/ Normalize
    \/ ParseRaises
    \/ upload_invoice

Spec == Init /\ [][Next]_vars

-----------------------------------------------------------------------------
(* Normalization applied to raw LLM results drawn from a bounded set       *)

MaxItems == 2      \* entries of a raw line_items list

\* JSON values a raw field may hold
RawValues ==
    << JNull, JStr(<<>>), JStr(<<"RUPEE", "1", ",", "2", "3", "4", ".", "5", "0">>),
       JStr(<<"1", "2", "3", "4", ".", "5", "0">>), JStr(<<"a", "b", "c">>),
       JInt(0), JInt(7), JFloat(0), JFloat(250), JBool(TRUE), JBool(FALSE),
       JList(<<>>), JList(<<JInt(1)>>), EmptyDict, JDict("a" :> JInt(1)), JBig >>

\* raw invoice_data members
RawInvoiceDatas ==
    [i \in 1..Len(RawValues) |-> JDict("Total Invoice Value" :> RawValues[i])] \o
    << JDict(("Invoice Number" :> JStr(<<"INV-001">>)) @@ ("PO Number" :> JStr(<<"PO-9">>)) @@
             ("Total Quantity" :> JInt(3)) @@ ("Vendor" :> JStr(<<"Acme">>)) @@
             ("Buyer Name" :> JStr(<<"Bolt">>))),
       EmptyDict, JNull, JStr(<<"Buyer Name">>), JList(<<>>) >>

\* raw line_items entries
RawItems ==
    << GoodItem("SKU1", JInt(10)),
       JDict(("Line Number" :> JInt(7)) @@ ("Quantity" :> JStr(<<"2">>))),
       JDict("Quantity" :> JNull),
       JInt(5),
       JStr(<<"Quantity">>) >>

RawResponse(inv, items) == JDict([invoice_data |-> inv, line_items |-> JList(items)])

\* does _normalize_invoice_data raise (line 319 or line 320)?
NormalizeInvoiceRaises(resp) ==
    PyIn("error", resp) = "TypeError" \/ (PyIn("error", resp) = "True" /\ resp.t # "dict")

InitNorm ==
    /\ message = NoAnswer /\ processing_info = <<>> /\ results = <<>> /\ status_file = None
    /\ temp = {} /\ job = [at |-> "idle", provider |-> "None"] /\ cursor = 0
    /\ parser = "LLMPDFParser" /\ pdf = None /\ HAS_DOCLING = FALSE /\ ocr_model = None
    /\ pc = "raw"
    /\ llm_provider \in {"google", "openai"}
    /\ api_key = "key-A"
    /\ text = EmptyStr
    /\ native_text = None /\ ocr_text = None
    /\ \/ \E i \in 1..Len(RawInvoiceDatas), q \in SeqsUpTo(1..Len(RawItems), MaxItems) :
            llm_response = RawResponse(RawInvoiceDatas[i], [k \in 1..Len(q) |-> RawItems[q[k]]])
       \/ \E j \in 1..Len(RawValues) :
            llm_response = RawResponse(EmptyDict, <<JDict("Quantity" :> RawValues[j])>>)
       \/ \E d \in JsonDocuments : llm_response = JsonDocument(d)
       \/ \E d \in {"doc:full", "doc:header-only"} :
            llm_response = JDict(JsonDocument(d).v @@ [error |-> JStr(<<"quota exceeded">>)])
    /\ response = None
    /\ invoice_data = None /\ item_data = None /\ path = None
    /\ nativeCalls = 0 /\ ocrCalls = 0 /\ llmCalls = 0
    /\ parses = 0
    /\ errors = {}

\* _normalize_invoice_data and _normalize_line_items applied to the raw result
NormalizeRaw ==
    /\ pc = "raw"
    /\ IF NormalizeInvoiceRaises(llm_response)
       THEN /\ pc' = "norm_raised"
            /\ UNCHANGED <<invoice_data, item_data>>
       ELSE /\ pc' = "norm_done"
            /\ invoice_data' = _normalize_invoice_data(llm_response, llm_provider)
            /\ item_data' = _normalize_line_items(llm_response)
    /\ UNCHANGED <<installation, server, response>>
    /\ UNCHANGED <<llm_provider, api_key, text, native_text, ocr_text, llm_response, path,
                   nativeCalls, ocrCalls, llmCalls, parses, errors>>

NextNorm == NormalizeRaw

SpecNorm == InitNorm /\ [][NextNorm]_vars

-----------------------------------------------------------------------------
(* The pattern strategy: InvoiceParser (pdf_parser.py) and SimplePDFParser *)
(* (simple_pdf_parser.py).  Their documents are made of the lexemes of     *)
(* PatternPages.  A pattern whose literal words occur in no lexeme of a    *)
(* pattern document (Address, Road, Name, Only, IRN, PCS, ...) cannot      *)
(* match; the operators give the value the code uses then, and say so.     *)

\* re.sub(r'\s+', ' ', s)
RECURSIVE CollapseWs(_)
CollapseWs(s) ==
    IF s = <<>> THEN <<>>
    ELSE IF Head(s) \in Whitespace THEN <<" ">> \o CollapseWs(lstrip(s))
    ELSE <<Head(s)>> \o CollapseWs(Tail(s))

\* sep.join(parts)
RECURSIVE Join(_, _)
Join(parts, sep) ==
    IF parts = <<>> THEN <<>>
    ELSE IF Len(parts) = 1 THEN parts[1]
    ELSE parts[1] \o <<sep>> \o Join(Tail(parts), sep)

\* s[:n]; exact when the cut falls between two lexemes
RECURSIVE Slice(_, _)
Slice(s, n) ==
    IF s = <<>> \/ LexLen(Head(s)) > n THEN <<>>
    ELSE <<Head(s)>> \o Slice(Tail(s), n - LexLen(Head(s)))

\* [line.strip() for line in s.split('\n') if line.strip()]
StrippedLines(s) ==
    LET stripped == [i \in 1..Len(SplitLines(s)) |-> strip(SplitLines(s)[i])]
    IN SelectSeq(stripped, LAMBDA l : l # <<>>)

\* str(f) of a float f held in hundredths
FloatRepr(c) ==
    IF c % 100 = 0 THEN <<ToString(c \div 100), ".0">>
    ELSE IF c % 10 = 0 THEN <<ToString(c \div 100), ".", ToString((c % 100) \div 10)>>
    ELSE IF c % 100 < 10 THEN <<ToString(c \div 100), ".0", ToString(c % 100)>>
    ELSE <<ToString(c \div 100), ".", ToString(c % 100)>>

\* _extract_document_type (pdf_parser 91-97, simple_pdf_parser 80-85)
_extract_document_type(s) ==
    IF Contains(s, {"Tax Invoice"}) THEN <<"Tax Invoice">>
    ELSE IF Contains(s, {"Delivery Challan"}) THEN <<"Delivery Challan">>
    ELSE IF Contains(s, {"Stock Transfer"}) THEN <<"Stock Transfer">>
    ELSE <<"Tax Invoice">>

\* label\.?\s*:\s*([A-Za-z0-9/\-_]+) from lexeme i; colonRequired = FALSE is \s*:?\s*
LabelIdentAt(t, i, Labels, colonRequired) ==
    IF t[i] \in Labels
    THEN LET a == SkipWs(t, Opt(t, i + 1, {"."})) IN
         IF a <= Len(t) /\ t[a] = ":" THEN CaptureIdent(t, SkipWs(t, a + 1))
         ELSE IF colonRequired THEN NoMatch
         ELSE CaptureIdent(t, a)
    ELSE NoMatch

\* InvoiceParser._extract_invoice_number (99-118)
Invoice_extract_invoice_number(s) ==
    LET \* (Mensa/[A-Z]{2}/[A-Z]{3}/\d+)
        MensaAt(t, i) == IF t[i] = "Mensa/KA/BLR/830" THEN Match(<<t[i]>>) ELSE NoMatch
    IN
    FirstOf(<<Search([pos \in 1..Len(s) |-> LabelIdentAt(s, pos, {"Invoice No"}, TRUE)]),
              Search([pos \in 1..Len(s) |-> LabelIdentAt(s, pos, {"Invoice Number"}, TRUE)]),
              Search([pos \in 1..Len(s) |-> LabelIdentAt(s, pos, {"Bill No"}, TRUE)]),
              Search([pos \in 1..Len(s) |-> MensaAt(s, pos)])>>).cap

\* SimplePDFParser._extract_invoice_number (87-102)
Simple_extract_invoice_number(s) ==
    LET \* (Mensa/[A-Z]{2}/[A-Z]{3}/\d+)
        MensaAt(t, i) == IF t[i] = "Mensa/KA/BLR/830" THEN Match(<<t[i]>>) ELSE NoMatch
        m == FirstOf(<<
                Search([pos \in 1..Len(s) |-> LabelIdentAt(s, pos, {"Document No"}, FALSE)]),
                Search([pos \in 1..Len(s) |-> LabelIdentAt(s, pos, {"Invoice No"}, FALSE)]),
                Search([pos \in 1..Len(s) |-> LabelIdentAt(s, pos, {"Invoice Number"}, FALSE)]),
                Search([pos \in 1..Len(s) |-> LabelIdentAt(s, pos, {"Bill No"}, FALSE)]),
                Search([pos \in 1..Len(s) |-> MensaAt(s, pos)])>>)
    IN IF m.ok THEN m.cap ELSE <<"UNKNOWN">>

\* _extract_date (pdf_parser 120-135, simple_pdf_parser 104-120: the same five patterns)
_extract_date(s) ==
    LET Date1At(t, i) == LabelColonValue(t, i, {"Invoice Date"}, DateShaped)
        Date2At(t, i) == LabelColonValue(t, i, {"Date", "Invoice Date"}, DateShaped)
        Date3At(t, i) == LabelColonValue(t, i, {"Date", "Invoice Date"}, DateMonShaped)
        \* Invoice\s*Date\s*:?\s*(\d{1,2}[A-Za-z]{3}\d{2,4})
        Date4At(t, i) ==
            LET v == SkipWs(t, Opt(t, SkipWs(t, i + 1), {":"})) IN
            IF t[i] = "Invoice Date" /\ v <= Len(t) /\ t[v] \in DateMonShaped
            THEN Match(<<t[v]>>) ELSE NoMatch
        \* (\d{1,2}[-/\.]\d{1,2}[-/\.]\d{2,4})
        Date5At(t, i) == IF t[i] \in DateShaped THEN Match(<<t[i]>>) ELSE NoMatch
    IN FirstOf(<<Search([pos \in 1..Len(s) |-> Date1At(s, pos)]),
                 Search([pos \in 1..Len(s) |-> Date2At(s, pos)]),
                 Search([pos \in 1..Len(s) |-> Date3At(s, pos)]),
                 Search([pos \in 1..Len(s) |-> Date4At(s, pos)]),
                 Search([pos \in 1..Len(s) |-> Date5At(s, pos)])>>).cap

\* the words of the header row of the item table
TableHeaders == {"Description", "Qty", "Rate", "Amount", "HSN", "Item Code", "S.No"}

\* the table section: the text from the first table header that has the word Total
\* somewhere after it; the header in Total Qty is its second word.  SimplePDFParser
\* (426-430) takes the match of the pattern, which ends where Total, Grand Total or Sub
\* Total starts; InvoiceParser (281-296) cuts at text.find("Total"), inside Grand Total
\* and Sub Total.
TableText(s, find) ==
    LET WithTotal == {"Total", "Grand Total", "Sub Total", "Total Invoice Value", "Total Qty"}
        starts == {i \in 1..Len(s) :
                      /\ s[i] \in TableHeaders \cup {"Total Qty"}
                      /\ \E j \in (i + 1)..Len(s) : s[j] \in WithTotal}
        Cut(a, b) ==
            (IF s[a] = "Total Qty" THEN <<"Qty">> ELSE <<s[a]>>) \o
            SubSeq(s, a + 1, b - 1) \o
            (IF find /\ s[b] = "Grand Total" THEN <<"Grand", " ">>
             ELSE IF find /\ s[b] = "Sub Total" THEN <<"Sub", " ">> ELSE <<>>)
        From(a) == Cut(a, Min({j \in (a + 1)..Len(s) : s[j] \in WithTotal}))
    IN IF starts = {} THEN <<>> ELSE From(Min(starts))

-----------------------------------------------------------------------------
(* InvoiceParser *)

\* _extract_entity_name (204-214): {pattern}\s*:\s*(.*?)(?:\n|GSTIN|PAN|$) for each label
\* in turn; the first label that matches gives the name, empty or not
Invoice_extract_entity_name(s, context_patterns) ==
    LET NameAt(t, i, label) ==
            LET c == SkipWs(t, i + 1)
                k == SkipWs(t, c + 1)
                stops == {e \in k..Len(t) : t[e] \in {"\n", "GSTIN", "PAN"}}
                e == IF stops = {} THEN Len(t) + 1 ELSE Min(stops)
            IN IF t[i] = label /\ c <= Len(t) /\ t[c] = ":"
               THEN Match(CollapseWs(strip(SubSeq(t, k, e - 1))))
               ELSE NoMatch
    IN FirstOf([p \in 1..Len(context_patterns) |->
                  Search([pos \in 1..Len(s) |-> NameAt(s, pos, context_patterns[p])])]).cap

\* the search of a|b|c|GSTIN.*?(gstin) (pdf_parser 139-140, simple_pdf_parser 159-160):
\* the leftmost match is "bare" (one of the words a, b, c: group 1 is None), "token"
\* (GSTIN with a GSTIN after it: v is the nearest one), or there is "none"
ContextGstin(s, words) ==
    LET starts == {i \in 1..Len(s) :
                      \/ s[i] \in words
                      \/ s[i] = "GSTIN" /\ \E j \in (i + 1)..Len(s) : s[j] \in GstinShaped}
        a == Min(starts)
    IN IF starts = {} THEN [kind |-> "none", v |-> <<>>]
       ELSE IF s[a] \in words THEN [kind |-> "bare", v |-> <<>>]
       ELSE [kind |-> "token",
             v |-> <<s[Min({j \in (a + 1)..Len(s) : s[j] \in GstinShaped})]>>]

\* _extract_gstin (137-164): exc when line 142 raises AttributeError.  Without a match
\* the result is "": text.find(context_pattern) looks for the pattern itself, bars
\* included, which no document holds.
Invoice_extract_gstin(s, words) ==
    [exc |-> ContextGstin(s, words).kind = "bare", v |-> ContextGstin(s, words).v]

\* _extract_address (166-202).  The four address patterns need Address, a street or
\* place word, or six digits in a row; what is left is lines 195-202.
Invoice_extract_address(s, entity_name) ==
    LET \* s.find(q) + 1 for a q that is not empty
        Find(q) ==
            LET at == {i \in 1..(Len(s) - Len(q) + 1) : SubSeq(s, i, i + Len(q) - 1) = q}
            IN IF at = {} THEN 0 ELSE Min(at)
        name_pos == Find(entity_name)
        lines == SplitLines(Slice(SubSeq(s, name_pos, Len(s)), 500))
        next5 == SubSeq(lines, 2, IF Len(lines) < 6 THEN Len(lines) ELSE 6)
        kept == SelectSeq(next5, LAMBDA l :
                    strip(l) # <<>> /\ ~Contains(l, {"GSTIN", "PAN", "Phone", "Email"}))
    IN IF entity_name = <<>> \/ name_pos = 0 THEN <<>>
       ELSE Join([i \in 1..Len(kept) |-> strip(kept[i])], ", ")

\* _extract_numeric_value (265-275) and the four searches of _extract_tax_amounts
\* (216-263) for a context pattern a|b|z: only z is followed by the number pattern, a
\* and b are bare words.  exc when line 270 raises AttributeError.
Invoice_extract_numeric_value(s, bare, numbered) ==
    LET \* what .*?(?:Rs\.?|INR)?\s*(\d+(?:,\d+)*(?:\.\d+)?) captures after a label at
        \* lexeme i, -1 when it does not match: the first number on the rest of the line
        \* or, when the line has none, the number that starts the first lexeme after it
        NumberOnLine(i) ==
            LET e == LineEnd(s, i)
                on == {j \in (i + 1)..e : Lexeme(s[j]).num >= 0}
                k == SkipWs(s, e + 1)
            IN IF on # {} THEN Lexeme(s[Min(on)]).num
               ELSE IF k <= Len(s) /\ Lexeme(s[k]).digit0 THEN Lexeme(s[k]).num
               ELSE -1
        starts == {i \in 1..Len(s) :
                      s[i] \in bare \/ (s[i] \in numbered /\ NumberOnLine(i) >= 0)}
    IN IF starts = {} THEN [exc |-> FALSE, v |-> 0]
       ELSE IF s[Min(starts)] \in bare THEN [exc |-> TRUE, v |-> 0]
       ELSE [exc |-> FALSE, v |-> NumberOnLine(Min(starts))]

\* re.split(r'\s{2,}', line) of a stripped line
RECURSIVE SplitParts(_)
SplitParts(q) ==
    LET runs == {i \in 1..Len(q) :
                    /\ q[i] \in Whitespace
                    /\ LexLen(q[i]) >= 2 \/ (i < Len(q) /\ q[i + 1] \in Whitespace)}
    IN IF runs = {} THEN <<q>>
       ELSE <<SubSeq(q, 1, Min(runs) - 1)>> \o SplitParts(lstrip(SubSeq(q, Min(runs), Len(q))))

\* the group of (\d+(?:\.\d+)?)% in a line, -1 when there is none
TaxRate(line) ==
    LET at == {k \in 1..Len(line) : Lexeme(line[k]).pct >= 0}
    IN IF at = {} THEN -1 ELSE Lexeme(line[Min(at)]).pct

\* the body of the loop over item lines (313-390) for item line i: the item, or
\* ok = FALSE when the line is skipped (fewer than 3 parts, or float() raises)
Invoice_item(line, i, invoice_number) ==
    LET \* re.sub(r'[^\d.]', '', part), character by character
        RECURSIVE DigitsOf(_)
        DigitsOf(q) == IF q = <<>> THEN <<>> ELSE Lexeme(Head(q)).digits \o DigitsOf(Tail(q))
        \* lines 325-358 and 366-388, given the parts and what float() made of two of them
        Item(parts, wide, qty, price, tax) ==
            LET unit_price == IF price.ok THEN price.v ELSE 0
                taxed == wide /\ tax >= 0 /\ unit_price > 0 /\ qty.v > 0
                subtotal == (unit_price * qty.v) \div 100
                igst == IF taxed THEN (subtotal * tax) \div 10000 ELSE 0
                total == IF wide /\ Lexeme(line[Len(line)]).tail >= 0
                         THEN Lexeme(line[Len(line)]).tail
                         ELSE IF taxed THEN subtotal + igst ELSE 0
                tax_rate == IF tax < 0 THEN <<>>
                            ELSE IF tax % 100 = 0 THEN <<"GST_", ToString(tax \div 100)>>
                            ELSE <<"GST_">> \o FloatRepr(tax)
            IN IF ~qty.ok \/ (wide /\ ~price.ok) THEN [ok |-> FALSE]
               ELSE [ok |-> TRUE,
                     item |->
                        ("Item/SKU Code" :> JStr(parts[1])) @@
                        ("Item Description" :> JStr(parts[2])) @@
                        ("HSN Code" :> JStr(IF wide /\ Lexeme(parts[3][1]).digit0
                                            THEN parts[3] ELSE <<>>)) @@
                        ("Quantity" :> JFloat(qty.v)) @@
                        ("UOM" :> JStr(IF wide THEN <<"PCS">> ELSE <<>>)) @@
                        ("Unit Price" :> JFloat(unit_price)) @@
                        ("Tax Rate" :> JStr(tax_rate)) @@
                        ("IGST Rate" :> JStr(IF tax < 0 THEN <<>>
                                             ELSE FloatRepr(tax) \o <<"%">>)) @@
                        ("IGST Amount" :> JFloat(igst)) @@
                        ("Line Total Value" :> JFloat(total)) @@
                        DefaultItem(JStr(invoice_number), i)]
        Parts(parts, wide) ==
            IF Len(parts) < 3 THEN [ok |-> FALSE]
            ELSE Item(parts, wide,
                      PyFloatOfStr(DigitsOf(parts[IF wide THEN 4 ELSE 3])),
                      IF wide \/ Len(parts) > 3
                      THEN PyFloatOfStr(DigitsOf(parts[IF wide THEN 5 ELSE 4]))
                      ELSE [ok |-> TRUE, v |-> 0],
                      TaxRate(line))
    IN Parts(SplitParts(line), Len(SplitParts(line)) >= 7)

\* _extract_line_items (277-440)
Invoice_extract_line_items(s, invoice_number) ==
    LET \* re.findall(r'([A-Z0-9]+_[A-Z0-9]+)', t)
        RECURSIVE Codes(_)
        Codes(t) == IF t = <<>> THEN <<>> ELSE Lexeme(Head(t)).codes \o Codes(Tail(t))
        \* 393-438: (\d{8}) and (\d+)\s*(?:PCS|EA|NOS) find nothing in a pattern document
        SecondChance(sku_matches) ==
            [i \in 1..(IF Len(sku_matches) < 5 THEN Len(sku_matches) ELSE 5) |->
                ("Item/SKU Code" :> JStr(<<sku_matches[i]>>)) @@
                ("Quantity" :> JInt(0)) @@
                ("UOM" :> JStr(<<"PCS">>)) @@
                ("Tax Rate" :> JStr(<<"GST_5">>)) @@
                ("IGST Rate" :> JStr(<<"5.00%">>)) @@
                DefaultItem(JStr(invoice_number), i)]
        Items(found) ==
            IF found # <<>> THEN [i \in 1..Len(found) |-> found[i].item]
            ELSE SecondChance(Codes(s))
        \* 313-390 over the item lines
        Lines(item_lines) ==
            Items(SelectSeq([i \in 1..Len(item_lines) |->
                                Invoice_item(item_lines[i], i, invoice_number)],
                            LAMBDA r : r.ok))
    IN IF TableText(s, TRUE) = <<>> THEN <<>>
       ELSE Lines(SelectSeq(StrippedLines(TableText(s, TRUE)),
                            LAMBDA l : ~Contains(l, TableHeaders)))

\* parse (478-577) on the acquired text: exc when one of the calls of lines 510-512 and
\* 520-522 raises
Invoice_parse(s) ==
    LET Record(number, supplier_name, buyer_name, consignee_name, supplier_gstin,
               buyer_gstin, consignee_gstin, total_quantity, subtotal, total) ==
            LET buyer_address == Invoice_extract_address(s, buyer_name)
                consignee_address == Invoice_extract_address(s, consignee_name)
            IN
            [exc |-> \/ supplier_gstin.exc \/ buyer_gstin.exc \/ consignee_gstin.exc
                     \/ total_quantity.exc \/ subtotal.exc \/ total.exc,
             invoice |->
                ("Document Type" :> JStr(_extract_document_type(s))) @@
                ("Invoice/Document Number" :> JStr(number)) @@
                ("Invoice/Document Date" :> JStr(_extract_date(s))) @@
                ("Supplier Name" :> JStr(supplier_name)) @@
                ("Supplier GSTIN" :> JStr(supplier_gstin.v)) @@
                ("Supplier Address" :> JStr(Invoice_extract_address(s, supplier_name))) @@
                ("Buyer Name" :> JStr(buyer_name)) @@
                ("Buyer GSTIN" :> JStr(buyer_gstin.v)) @@
                ("Buyer Address" :> JStr(buyer_address)) @@
                ("Consignee Name" :> JStr(consignee_name)) @@
                ("Consignee GSTIN" :> JStr(IF Truthy(consignee_gstin.v) THEN consignee_gstin.v
                                           ELSE buyer_gstin.v)) @@
                ("Consignee Address" :> JStr(IF Truthy(consignee_address)
                                             THEN consignee_address ELSE buyer_address)) @@
                ("Total Quantity" :> JFloat(total_quantity.v)) @@
                ("Subtotal/Taxable Value" :> JFloat(subtotal.v)) @@
                ("CGST Amount" :> JFloat(Invoice_extract_numeric_value(s, {}, {"CGST"}).v)) @@
                ("SGST Amount" :> JFloat(Invoice_extract_numeric_value(s, {}, {"SGST"}).v)) @@
                ("IGST Amount" :> JFloat(Invoice_extract_numeric_value(s, {}, {"IGST"}).v)) @@
                ("CESS Amount" :> JFloat(Invoice_extract_numeric_value(s, {}, {"CESS"}).v)) @@
                ("Total Invoice Value" :> JFloat(total.v)) @@
                DefaultInvoice,
             items |-> Invoice_extract_line_items(s, number)]
        \* line 507: consignee_name or buyer_name
        Names(buyer_name, consignee) ==
            Record(Invoice_extract_invoice_number(s),
                   Invoice_extract_entity_name(s, <<"Supplier", "Seller", "From", "Sold by">>),
                   buyer_name,
                   IF Truthy(consignee) THEN consignee ELSE buyer_name,
                   Invoice_extract_gstin(s, {"Supplier", "Seller", "From"}),
                   Invoice_extract_gstin(s, {"Buyer", "Customer", "Bill To"}),
                   Invoice_extract_gstin(s, {"Consignee", "Ship To"}),
                   Invoice_extract_numeric_value(s, {"Total Qty"}, {"Quantity"}),
                   Invoice_extract_numeric_value(s, {"Sub Total", "Taxable Value"},
                                                 {"Assessable Value"}),
                   Invoice_extract_numeric_value(s, {"Total Amount", "Grand Total"},
                                                 {"Invoice Value", "Total Invoice Value"}))
    IN Names(Invoice_extract_entity_name(s, <<"Buyer", "Bill To", "Customer", "Billed To">>),
             Invoice_extract_entity_name(s, <<"Consignee", "Ship To", "Delivered To">>))

-----------------------------------------------------------------------------
(* SimplePDFParser *)

\* _extract_gstin (122-192) for context in "supplier", "buyer", "consignee".  GST No is
\* not a lexeme of a pattern document; the search of lines 164-171 cannot match where
\* the one of lines 159-163 did not.
Simple_extract_gstin(s, context) ==
    LET \* word\s*GSTIN\s*:?\s*(gstin)
        DirectAt(t, i, words) ==
            LET g == SkipWs(t, i + 1)
                v == SkipWs(t, Opt(t, SkipWs(t, g + 1), {":"}))
            IN IF t[i] \in words /\ g <= Len(t) /\ t[g] = "GSTIN" /\ v <= Len(t)
                  /\ t[v] \in GstinShaped
               THEN Match(<<t[v]>>) ELSE NoMatch
        direct ==
            IF context = "supplier"
            THEN FirstOf(<<Search([pos \in 1..Len(s) |-> DirectAt(s, pos, {"Supplier"})]),
                           Search([pos \in 1..Len(s) |-> DirectAt(s, pos, {"Seller"})]),
                           Search([pos \in 1..Len(s) |-> DirectAt(s, pos, {"From"})])>>)
            ELSE FirstOf(<<Search([pos \in 1..Len(s) |-> DirectAt(s, pos, {"Buyer"})]),
                           Search([pos \in 1..Len(s) |-> DirectAt(s, pos, {"Customer"})]),
                           Search([pos \in 1..Len(s) |-> DirectAt(s, pos, {"Consignee"})])>>)
        words == CASE context = "supplier" -> {"Supplier", "Seller", "From"}
                   [] context = "buyer" -> {"Buyer", "Customer", "Bill To"}
                   [] context = "consignee" -> {"Consignee", "Ship To"}
        all == FindAllGstin(s)
        nth == CASE context = "supplier" -> 1
                 [] context = "buyer" -> IF Len(all) > 1 THEN 2 ELSE 1
                 [] context = "consignee" -> IF Len(all) > 2 THEN 3 ELSE 1
    IN IF direct.ok THEN direct.cap
       ELSE IF ContextGstin(s, words).kind # "none" THEN ContextGstin(s, words).v
       ELSE IF all # <<>> THEN <<all[nth]>>
       ELSE <<>>

\* _extract_name_and_address (194-245); keywords[k] is the set of lexemes that hold the
\* k-th keyword.  Name and Address are not lexemes of a pattern document.
Simple_extract_name_and_address(s, keywords) ==
    LET all == UNION {keywords[k] : k \in 1..Len(keywords)}
        \* (?:keyword|Details of keyword).*?(?:GSTIN|PAN|\n\s*\n) from lexeme i: where
        \* the section may end
        Ends(i) == {j \in (i + 1)..Len(s) :
                       \/ s[j] \in {"GSTIN", "PAN"}
                       \/ s[j] = "\n" /\ \E k \in (j + 1)..(SkipWs(s, j) - 1) : s[k] = "\n"}
        SectionAt(t, i, k) ==
            IF t[i] \in keywords[k] /\ Ends(i) # {}
            THEN Match(SubSeq(t, i, Min(Ends(i)))) ELSE NoMatch
        \* re.sub(r'^[:\s]+', '', name)
        RECURSIVE Clean(_)
        Clean(n) == IF n # <<>> /\ Head(n) \in Whitespace \cup {":"} THEN Clean(Tail(n)) ELSE n
        \* 226-238: the lines after the one that holds the name, up to a GSTIN or PAN line
        Address(rest) ==
            LET breaks == {i \in 1..Len(rest) : Contains(rest[i], {"GSTIN", "GST No", "PAN"})}
            IN Join(IF breaks = {} THEN rest ELSE SubSeq(rest, 1, Min(breaks) - 1), ", ")
        Named(lines, name) ==
            [name |-> Clean(name),
             address |-> Address(SubSeq(lines,
                                        Min({i \in 1..Len(lines) : HasRun(lines[i], name)}) + 1,
                                        Len(lines)))]
        \* 211-223: the first line that holds no keyword
        Lines(lines) ==
            LET named == {i \in 1..Len(lines) : ~Contains(lines[i], all)}
            IN Named(lines, IF named = {} THEN <<>> ELSE lines[Min(named)])
        Section(section) ==
            IF ~section.ok THEN [name |-> <<>>, address |-> <<>>]
            ELSE Lines(StrippedLines(section.cap))
    IN Section(FirstOf([k \in 1..Len(keywords) |->
                          Search([pos \in 1..Len(s) |-> SectionAt(s, pos, k)])]))

\* _extract_numeric_value (247-257) for label[^0-9]*(\d[\d,.]*), -1 without a match.
\* The label is a lexeme of Labels, or the word Total at the end of a lexeme, blanks, and
\* a lexeme of Tails (Total\s*(?:Qty|Quantity)).
Simple_extract_numeric_value(s, Labels, Tails) ==
    LET LabelEnd(i) ==
            IF s[i] \in Labels THEN i
            ELSE IF s[i] \in {"Total", "Grand Total", "Sub Total"}
                    /\ SkipWs(s, i + 1) <= Len(s) /\ s[SkipWs(s, i + 1)] \in Tails
            THEN SkipWs(s, i + 1)
            ELSE 0
        After(i) == {j \in (LabelEnd(i) + 1)..Len(s) : Lexeme(s[j]).num >= 0}
        starts == {i \in 1..Len(s) : LabelEnd(i) > 0 /\ After(i) # {}}
    IN IF starts = {} THEN 0 ELSE Lexeme(s[Min(After(Min(starts)))]).num

\* _extract_total_invoice_value (259-295).  Rupees and INR are not lexemes of a pattern
\* document.
Simple_extract_total_invoice_value(s) ==
    LET \* label\s*(?:in\s*INR)?\s*:?\s*(?:RUPEE|Rs\.?)?\s*(number)
        ValueAt(t, i, Labels, decimal) ==
            LET a == SkipWs(t, Opt(t, SkipWs(t, i + 1), {"in INR"}))
                b == SkipWs(t, Opt(t, a, {":"}))
                c == SkipWs(t, Opt(t, b, {"RUPEE", "Rs.", "Rs"}))
                n == IF c > Len(t) THEN -1
                     ELSE IF decimal THEN Lexeme(t[c]).dec ELSE Lexeme(t[c]).lead
            IN IF t[i] \in Labels /\ n >= 0 THEN Match(<<n>>) ELSE NoMatch
        labels == << {"Total Invoice Value"}, {"Total Amount"}, {"Grand Total"},
                     {"Total Value"}, {"Total", "Grand Total", "Sub Total"} >>
        \* the value of the p-th pattern of the two lists: _extract_numeric_value
        Value(p) ==
            LET m == Search([pos \in 1..Len(s) |->
                               ValueAt(s, pos, labels[IF p > 5 THEN p - 5 ELSE p], p <= 5)])
            IN IF m.ok THEN m.cap[1] ELSE 0
        positive == {p \in 1..10 : Value(p) > 0}
    IN IF positive = {} THEN 0 ELSE Value(Min(positive))

\* the first loop of _extract_line_items (441-504) for item line i.  PCS, EA, NOS, KG,
\* GM, MT, LT and PER are not lexemes of a pattern document: the quantity is 1.0, the
\* unit PCS, and the description ends at the HSN code.
Simple_table_item(line, i, invoice_number, s) ==
    LET rate(c) == FloatRepr(c) \o <<"%">>
        Item(sku_code, hsn_code, line_total, tax_rate, cgst, sgst, desc) ==
            ("Item/SKU Code" :> JStr(IF sku_code = "" THEN <<>> ELSE <<sku_code>>)) @@
            ("Item Description" :>
                JStr(IF desc = <<>> /\ PyLen(line) > 5 THEN Slice(line, 50) ELSE desc)) @@
            ("HSN Code" :> JStr(IF hsn_code = "" THEN <<>> ELSE <<hsn_code>>)) @@
            ("Quantity" :> JFloat(100)) @@
            ("UOM" :> JStr(<<"PCS">>)) @@
            ("Unit Price" :> JFloat(IF line_total > 0 THEN (line_total * 100) \div 100 ELSE 0)) @@
            ("Tax Rate" :> JStr(IF tax_rate > 0 THEN rate(tax_rate) ELSE <<>>)) @@
            ("CGST Rate" :> JStr(IF cgst THEN rate(tax_rate \div 2) ELSE <<>>)) @@
            ("SGST Rate" :> JStr(IF sgst THEN rate(tax_rate \div 2) ELSE <<>>)) @@
            ("IGST Rate" :> JStr(IF tax_rate > 0 /\ (Contains(s, {"IGST"}) \/ (~cgst /\ ~sgst))
                                 THEN rate(tax_rate) ELSE <<>>)) @@
            ("CGST Amount" :> JFloat(IF cgst THEN (line_total * tax_rate) \div 20000 ELSE 0)) @@
            ("SGST Amount" :> JFloat(IF sgst THEN (line_total * tax_rate) \div 20000 ELSE 0)) @@
            ("IGST Amount" :>
                JFloat(IF tax_rate > 0 /\ (Contains(s, {"IGST"}) \/ (~cgst /\ ~sgst))
                       THEN (line_total * tax_rate) \div 10000 ELSE 0)) @@
            ("Line Total Value" :> JFloat(line_total)) @@
            DefaultItem(JStr(invoice_number), i)
        \* {sku_code}\s+(.*?)(?:\b{hsn_code}\b|\b{quantity}\b|\b{uom}\b): the code is a
        \* whole lexeme before blanks; the group ends before the first word when there
        \* is no HSN code, else before the HSN code
        DescAt(t, k, sku_code, hsn_code) ==
            LET from == SkipWs(t, k)
                stops == {e \in from..Len(t) :
                             IF hsn_code = "" THEN t[e] \notin {":", "RUPEE"}
                             ELSE Lexeme(t[e]).hsn = hsn_code}
            IN IF t[k] \in Whitespace /\ (sku_code = "" \/ (k > 1 /\ t[k - 1] = sku_code))
                  /\ stops # {}
               THEN Match(strip(SubSeq(t, from, Min(stops) - 1) \o
                                (IF t[Min(stops)] = "01/02/2024" /\ hsn_code # ""
                                 THEN <<"01/02/">> ELSE <<>>)))
               ELSE NoMatch
        \* 489-491: the rates that are set
        Rates(sku_code, hsn_code, line_total, tax_rate) ==
            Item(sku_code, hsn_code, line_total, tax_rate,
                 Contains(s, {"CGST"}) /\ tax_rate > 0,
                 Contains(s, {"SGST"}) /\ tax_rate > 0,
                 Search([pos \in 1..Len(line) |-> DescAt(line, pos, sku_code, hsn_code)]).cap)
        \* 443-487: the first code, the first 4 to 8 digit number, the number at the end
        \* of the line, the first percentage; the quantity is 1.0
        Codes2(skus, hsns) ==
            Rates(IF skus = {} THEN "" ELSE Lexeme(line[Min(skus)]).sku,
                  IF hsns = {} THEN "" ELSE Lexeme(line[Min(hsns)]).hsn,
                  IF Lexeme(line[Len(line)]).endnum >= 0
                  THEN Lexeme(line[Len(line)]).endnum ELSE 0,
                  IF TaxRate(line) < 0 THEN 0 ELSE TaxRate(line))
    IN Codes2({k \in 1..Len(line) : Lexeme(line[k]).sku # ""},
              {k \in 1..Len(line) : Lexeme(line[k]).hsn # ""})

\* the second loop of _extract_line_items (507-573) for potential item line i
Simple_any_line_item(line, i, invoice_number) ==
    LET \* re.findall(r'\b\d+(?:,\d+)*(?:\.\d+)?\b', line), in hundredths
        RECURSIVE Amounts(_)
        Amounts(t) == IF t = <<>> THEN <<>> ELSE Lexeme(Head(t)).nums \o Amounts(Tail(t))
        Item(skus, amount_values) ==
            LET line_total == IF amount_values = <<>> THEN 0
                              ELSE amount_values[Len(amount_values)]
            IN ("Item/SKU Code" :> JStr(IF skus = {} THEN <<"ITEM", ToString(i)>>
                                        ELSE <<Lexeme(line[Min(skus)]).skualt>>)) @@
               ("Item Description" :> JStr(Slice(line, 50))) @@
               ("Quantity" :> JFloat(100)) @@
               ("UOM" :> JStr(<<"PCS">>)) @@
               ("Unit Price" :> JFloat(IF line_total > 0 THEN (line_total * 100) \div 100
                                       ELSE 0)) @@
               ("Line Total Value" :> JFloat(line_total)) @@
               DefaultItem(JStr(invoice_number), i)
    IN Item({k \in 1..Len(line) : Lexeme(line[k]).skualt # ""}, Amounts(line))

\* _extract_line_items (421-575)
Simple_extract_line_items(s, invoice_number) ==
    LET Items(item_lines, potential) ==
            IF item_lines # <<>>
            THEN [i \in 1..Len(item_lines) |->
                    Simple_table_item(item_lines[i], i, invoice_number, s)]
            ELSE [i \in 1..Len(potential) |->
                    Simple_any_line_item(potential[i], i, invoice_number)]
    IN Items(SelectSeq(StrippedLines(TableText(s, FALSE)),
                       LAMBDA l : l[Len(l)] \notin TableHeaders),
             SelectSeq(StrippedLines(s), LAMBDA l :
                /\ PyLen(l) >= 10
                /\ l[Len(l)] \notin {"Description", "Item Code", "S.No"}
                /\ \E k \in 1..Len(l) : Lexeme(l[k]).code6
                /\ \E k \in 1..Len(l) : Lexeme(l[k]).nums # <<>>))

\* parse (297-419) on the acquired text.  Legal Name, IRN, e-way bill and the amount in
\* words are not in a pattern document.
Simple_parse(s) ==
    LET \* line.isupper()
        IsUpper(l) == (\E k \in 1..Len(l) : Lexeme(l[k]).upper)
                      /\ (\A k \in 1..Len(l) : ~Lexeme(l[k]).lower)
        \* 311-318: the first of the first ten lines that looks like a company name
        CompanyName(lines, document_type) ==
            LET companies == {i \in 1..Len(lines) :
                                 /\ i <= 10
                                 /\ strip(lines[i]) # <<>>
                                 /\ ~Contains(lines[i], {document_type[1]})
                                 /\ IsUpper(lines[i])
                                    \/ Contains(lines[i], {"Myntra Jabong India Pvt Ltd"})}
            IN IF companies = {} THEN <<>> ELSE strip(lines[Min(companies)])
        Record(document_type, number, supplier, buyer, consignee, buyer_gstin) ==
            [invoice |->
                ("Document Type" :> JStr(document_type)) @@
                ("Invoice/Document Number" :> JStr(number)) @@
                ("Invoice/Document Date" :> JStr(_extract_date(s))) @@
                ("Supplier Name" :> JStr(IF Truthy(supplier.name) THEN supplier.name
                                         ELSE CompanyName(SplitLines(s), document_type))) @@
                ("Supplier GSTIN" :> JStr(Simple_extract_gstin(s, "supplier"))) @@
                ("Supplier Address" :> JStr(supplier.address)) @@
                ("Buyer Name" :> JStr(buyer.name)) @@
                ("Buyer GSTIN" :> JStr(buyer_gstin)) @@
                ("Buyer Address" :> JStr(buyer.address)) @@
                ("Consignee Name" :> JStr(consignee.name)) @@
                ("Consignee GSTIN" :> JStr(consignee.gstin)) @@
                ("Consignee Address" :> JStr(consignee.address)) @@
                ("Total Quantity" :>
                    JFloat(Simple_extract_numeric_value(s, {"Total Qty"}, {"Qty", "Quantity"}))) @@
                ("Subtotal/Taxable Value" :>
                    JFloat(Simple_extract_numeric_value(
                               s, {"Sub Total", "Taxable Value", "Assessable Value"}, {}))) @@
                ("CGST Amount" :> JFloat(Simple_extract_numeric_value(s, {"CGST"}, {}))) @@
                ("SGST Amount" :> JFloat(Simple_extract_numeric_value(s, {"SGST"}, {}))) @@
                ("IGST Amount" :> JFloat(Simple_extract_numeric_value(s, {"IGST"}, {}))) @@
                ("CESS Amount" :> JFloat(Simple_extract_numeric_value(s, {"CESS"}, {}))) @@
                ("Total Invoice Value" :> JFloat(Simple_extract_total_invoice_value(s))) @@
                DefaultInvoice,
             items |-> Simple_extract_line_items(s, number)]
        \* 341-349: without a consignee name the consignee is the buyer
        Consignee(buyer, consignee, buyer_gstin) ==
            Record(_extract_document_type(s),
                   Simple_extract_invoice_number(s),
                   Simple_extract_name_and_address(s, <<{"Supplier"}, {"Seller"}, {"From"}>>),
                   buyer,
                   IF Truthy(consignee.name)
                   THEN [name |-> consignee.name, address |-> consignee.address,
                         gstin |-> Simple_extract_gstin(s, "consignee")]
                   ELSE [name |-> buyer.name, address |-> buyer.address,
                         gstin |-> buyer_gstin],
                   buyer_gstin)
    IN Consignee(Simple_extract_name_and_address(
                     s, <<{"Buyer"}, {"Bill To"}, {"Customer"}, {"Details of Receiver"}>>),
                 Simple_extract_name_and_address(s, <<{"Consignee"}, {"Ship To"}>>),
                 Simple_extract_gstin(s, "buyer"))

-----------------------------------------------------------------------------
(* The files the pattern parsers are given, and their text acquisition     *)

\* page texts of pattern documents
PatternPages ==
    { <<>>,
      <<"Supplier", ":", " ", "Acme">>,
      <<"Buyer", ":", " ", "Bolt">>,
      <<"GSTIN", ":", " ", "29ABCDE1234F1Z5">>,
      <<"07PQRST5678G1Z2">>,
      <<"29ABCDE1234F1Z5", "\n", "07PQRST5678G1Z2", "\n", "33LMNOP9012H1Z9">>,
      <<"Invoice No", ":", " ", "INV-001", "\n", "Date", ":", " ", "01/02/2024">>,
      <<"Grand Total">>,
      <<"Total Invoice Value", ":", " ", "Rs.", " ", "5000.00">>,
      <<"Total Invoice Value", ":", " ", "0.00", "\n", "Grand Total", ":", " ", "5000.00">>,
      <<"Quantity">>,
      <<"AB_12">>,
      <<"Description", " ", " ", "Qty", " ", " ", "Rate", "\n",
        "SKU123", " ", " ", "Widget", " ", " ", "10", " ", " ", "500.00", " ", " ",
        "5%", " ", " ", "5250.00">>,
      <<"Invoice No", ":", " ", "INV-001", "\n", "29ABCDE1234F1Z5", "\n",
        "07PQRST5678G1Z2", "\n",
        "Description", " ", " ", "Qty", " ", " ", "Rate", "\n",
        "SKU123", " ", " ", "Widget", " ", " ", "10", " ", " ", "500.00", " ", " ",
        "5%", " ", " ", "5250.00", "\n",
        "Total Invoice Value", ":", " ", "Rs.", " ", "5000.00">> }

\* a PDF file: its text layer and what OCR reads from its rendered pages.  A file is
\* either digital (a text layer, and nothing OCR can render) or a scan (no text layer).
PatternPdfs ==
    {[layer |-> [open |-> TRUE, pages |-> q], scan |-> [open |-> FALSE, pages |-> <<>>]] :
        q \in SeqsUpTo([k : {"text"}, s : PatternPages], MaxPages)}
    \cup
    {[layer |-> [open |-> FALSE, pages |-> <<>>], scan |-> [open |-> o, pages |-> <<[k |-> "text", s |-> p]>>]] :
        o \in BOOLEAN,
        p \in {<<"Supplier", ":", " ", "Acme">>, <<"Invoice No", ":", " ", "INV-001">>}}

\* SimplePDFParser.extract_text (56-71) as far as self.text goes
Simple_extract_text(file) ==
    LET t == _extract_text_with_pypdf(file.layer) IN
    IF NeedsOcr(t) THEN KeepLonger(t, _extract_text_with_ocr(file.scan)) ELSE t

\* InvoiceParser._extract_text_with_docling (50-60): the text layer of the file
_extract_text_with_docling(file) ==
    IF Fails(file.layer) THEN EmptyStr ELSE JoinPages(file.layer.pages)

\* InvoiceParser._extract_text_with_ocr (62-89)
Invoice_extract_text_with_ocr(file, has_docling, model) ==
    LET \* 78-83: each line word by word, a blank after each word and a newline after
        \* each line
        RECURSIVE DoctrText(_)
        DoctrText(ls) ==
            IF ls = <<>> THEN <<>>
            ELSE CollapseWs(Head(ls)) \o <<" ", "\n">> \o DoctrText(Tail(ls))
        lines == StrippedLines(JoinPages(file.scan.pages))
    IN IF (~has_docling \/ ~Truthy(_extract_text_with_docling(file)))
          /\ model # None /\ ~Fails(file.scan)
       THEN DoctrText(lines)
       ELSE EmptyStr

\* the acquired text added to the text of the parse before
AcquireAppending(old, file, has_docling, model) ==
    LET t == IF has_docling THEN _extract_text_with_docling(file) ELSE EmptyStr IN
    old \o (IF Truthy(t) THEN t ELSE Invoice_extract_text_with_ocr(file, has_docling, model))

\* InvoiceParser.parse, lines 484-489: the new self.text
Invoice_acquire(old, file, has_docling, model) ==
    LET t == IF has_docling THEN _extract_text_with_docling(file) ELSE old IN
    IF Truthy(t) THEN t ELSE Invoice_extract_text_with_ocr(file, has_docling, model)

\* InvoiceParser.__init__ (35-48) and SimplePDFParser.__init__ (15-19) on a file
ConstructPattern ==
    /\ pc = "p_new"
    /\ \E cls \in {"InvoiceParser", "SimplePDFParser"}, file \in PatternPdfs,
          model \in {None, "predictor"} :
         /\ cls = "SimplePDFParser" => model = None
         /\ parser' = cls
         /\ pdf' = file
         /\ ocr_model' = model
    /\ pc' = "p_ready"
    /\ UNCHANGED <<server, HAS_DOCLING, llm_provider, api_key, text, native_text, ocr_text,
                   llm_response, response, invoice_data, item_data, path, nativeCalls, ocrCalls,
                   llmCalls, parses, errors>>

\* SimplePDFParser.parse (297-419)
SimpleParse ==
    /\ pc \in {"p_ready", "p_done"}
    /\ parser = "SimplePDFParser"
    /\ parses < MaxParses
    /\ parses' = parses + 1
    /\ \E t \in {IF Truthy(text) THEN text ELSE Simple_extract_text(pdf)} :
       \E result \in {Simple_parse(t)} :
         /\ text' = t
         /\ invoice_data' = result.invoice
         /\ item_data' = result.items
    /\ nativeCalls' = IF Truthy(text) THEN 0 ELSE 1
    /\ ocrCalls' = IF ~Truthy(text) /\ NeedsOcr(_extract_text_with_pypdf(pdf.layer)) THEN 1 ELSE 0
    /\ errors' = IF Truthy(text) THEN {}
                 ELSE (IF Fails(pdf.layer) THEN {"PyPDF2"} ELSE {}) \cup
                      (IF NeedsOcr(_extract_text_with_pypdf(pdf.layer)) /\ Fails(pdf.scan)
                       THEN {"OCR"} ELSE {})
    /\ path' = "pattern"
    /\ pc' = "p_done"
    /\ UNCHANGED <<installation, server, llm_provider, api_key, native_text, ocr_text,
                   llm_response, response, llmCalls>>

\* InvoiceParser.parse (478-577)
InvoiceParse ==
    /\ pc \in {"p_ready", "p_done", "p_raised"}
    /\ parser = "InvoiceParser"
    /\ parses < MaxParses
    /\ parses' = parses + 1
    /\ \E t \in {Invoice_acquire(text, pdf, HAS_DOCLING, ocr_model)} :
       \E result \in {Invoice_parse(t)} :
         /\ text' = t
         /\ IF result.exc
            THEN /\ pc' = "p_raised"
                 /\ path' = "AttributeError"
                 /\ invoice_data' = None /\ item_data' = None
            ELSE /\ pc' = "p_done"
                 /\ path' = "pattern"
                 /\ invoice_data' = result.invoice
                 /\ item_data' = result.items
    /\ nativeCalls' = IF ~HAS_DOCLING THEN 0
                      ELSE IF Truthy(_extract_text_with_docling(pdf)) THEN 1 ELSE 2
    /\ ocrCalls' = IF Truthy(IF HAS_DOCLING THEN _extract_text_with_docling(pdf) ELSE text)
                   THEN 0 ELSE 1
    /\ errors' = IF HAS_DOCLING /\ Fails(pdf.layer) THEN {"docling"} ELSE {}
    /\ UNCHANGED <<installation, server, llm_provider, api_key, native_text, ocr_text,
                   llm_response, response, llmCalls>>

\* the module is imported (13-27) and no object exists yet
InitPattern ==
    /\ message = NoAnswer /\ processing_info = <<>> /\ results = <<>> /\ status_file = None
    /\ temp = {} /\ job = [at |-> "idle", provider |-> "None"] /\ cursor = 0
    /\ pc = "p_new"
    /\ parser = None /\ pdf = None /\ ocr_model = None
    /\ HAS_DOCLING \in BOOLEAN
    /\ llm_provider = None /\ api_key = None
    /\ text = EmptyStr
    /\ native_text = None /\ ocr_text = None
    /\ llm_response = None /\ response = None
    /\ invoice_data = None /\ item_data = None /\ path = None
    /\ nativeCalls = 0 /\ ocrCalls = 0 /\ llmCalls = 0
    /\ parses = 0
    /\ errors = {}

NextPattern ==
    \/ ConstructPattern
    \/ SimpleParse
    \/ InvoiceParse

SpecPattern == InitPattern /\ [][NextPattern]_vars

-----------------------------------------------------------------------------
(* Properties                                                              *)

\* is x a str made of the lexemes of page texts?
IsStr(x) ==
    x \in Seq({" ", "\n", "W40", "W59", "W100", "Acme", "Invoice No", ":", "INV-001",
          "29ABCDE1234F1Z5", "Grand Total", "5000.00"})

\* is resp one of the tagged error results of the LLM call?
IsErrorResult(resp) == resp.t = "dict" /\ "error" \in DOMAIN resp.v

\* C1: on every path through LLMPDFParser.parse the returned invoice record has all 30
\* canonical fields, every numeric field a float and no field null.
C1_FullSchemaOnEveryPath ==
    pc = "done" =>
        /\ DOMAIN invoice_data = CanonicalFields
        /\ \A f \in InvoiceNumericFields : invoice_data[f].t = "float"
        /\ \A f \in CanonicalFields : invoice_data[f].t # "null"

\* C2: after normalization each of the eight numeric invoice fields and each of the
\* seven numeric fields of every line item is a float, whatever JSON value the raw
\* result held.
C2_NumericFieldsAreFloats ==
    pc = "norm_done" =>
        /\ \A f \in InvoiceNumericFields : invoice_data[f].t = "float"
        /\ \A i \in 1..Len(item_data) : \A f \in ItemNumericFields : item_data[i][f].t = "float"

\* C3: when the LLM call ended in an error result and text was acquired, parse returns
\* through the fallback: the remarks mention the fallback, no line items, and the
\* number, GSTIN and total that stand in the text are in the record.
C3_ErrorLeadsToFallback ==
    (pc \in {"done", "parse_raised"} /\ llmCalls = 1 /\ IsErrorResult(llm_response)) =>
        /\ pc = "done"
        /\ path = "fallback"
        /\ "fallback" \in {invoice_data["Additional Remarks"].v[i] :
                              i \in 1..Len(invoice_data["Additional Remarks"].v)}
        /\ HasRun(text, InvoicePage) =>
              /\ invoice_data["Invoice/Document Number"] = JStr(<<"INV-001">>)
              /\ invoice_data["Supplier GSTIN"] = JStr(<<"29ABCDE1234F1Z5">>)
              /\ invoice_data["Total Invoice Value"] = JFloat(500000)

C3_Witness ==
    /\ pc = "done" /\ path = "fallback"
    /\ llm_response = ErrorResult(<<"API request failed: ", "ConnectionError">>)
    /\ HasRun(text, InvoicePage)
    /\ invoice_data["Supplier Name"] = JStr(<<"Acme">>)

\* C4: for every provider outcome parse returns a pair and does not raise.
C4_ParseNeverRaises == pc # "parse_raised"

\* C5: when the acquired text has no character that is not whitespace, parse makes no
\* LLM call and returns the minimal record with no line items.
C5_NoTextEndsInFailed ==
    (pc \in {"llm_done", "done", "parse_raised"} /\ NonWhitespaceCount(text) = 0) =>
        /\ llmCalls = 0
        /\ pc = "done"
        /\ path = "failed"
        /\ item_data = <<>>

\* C6: a parser object exists only for a supported provider with a usable key; when
\* the constructor raised, nothing was extracted and no provider was called, and no
\* parse can start.
C6_ConfigErrorIsEager ==
    /\ pc \notin {"new", "config_error"} =>
          /\ llm_provider \in {"google", "openai"}
          /\ api_key \notin {None, ""}
    /\ pc = "config_error" =>
          /\ nativeCalls = 0 /\ ocrCalls = 0 /\ llmCalls = 0 /\ parses = 0
          /\ ~ENABLED ParseBegin
    /\ pc \in {"llm_done", "done", "parse_raised"} /\ llmCalls = 1 =>
          ~(IsErrorResult(llm_response) /\ llm_response.v["error"].v[1] = "Unsupported LLM provider: ")

C6_Witness ==
    /\ pc = "config_error"
    /\ llm_provider = "google"

\* C7 as stated: fewer than 100 characters that are not whitespace in the native
\* output make extract_text attempt OCR.
C7_OcrWhenLittleContent ==
    (pc = "text_done" /\ nativeCalls = 1 /\ NonWhitespaceCount(native_text) < MinContent)
        => ocrCalls = 1

\* C7: a native output whose trimmed length is below 100 makes extract_text attempt
\* OCR, and text acquisition completes whether OCR gave text or failed.
C7_OcrWhenTrimmedShort ==
    [][(pc = "native_done" /\ PyLen(strip(native_text)) < MinContent)
          => (ocrCalls' = ocrCalls + 1 /\ pc' = "text_done")]_vars

C7_Witness ==
    /\ pc = "text_done" /\ ocrCalls = 1
    /\ "OCR" \in errors
    /\ native_text = <<"W59", "\n">>
    /\ ocr_text = EmptyStr
    /\ text = native_text

\* C8: OCR runs exactly when the trimmed native text is shorter than 100, at most once;
\* the acquired text is the output with the greater trimmed length, the native one on
\* a tie, and the native one when OCR did not run.
C8_KeepsLongerOutput ==
    /\ ocrCalls <= 1
    /\ (pc = "text_done" /\ nativeCalls = 1) =>
          /\ ocrCalls = 1 <=> PyLen(strip(native_text)) < 100
          /\ ocrCalls = 0 => text = native_text
          /\ ocrCalls = 1 =>
                /\ PyLen(strip(ocr_text)) > PyLen(strip(native_text)) => text = ocr_text
                /\ PyLen(strip(ocr_text)) <= PyLen(strip(native_text)) => text = native_text

C8_Witness ==
    /\ pc = "text_done" /\ ocrCalls = 1
    /\ native_text = <<"W40", "\n">>
    /\ ocr_text = <<" ", "W40", "\n">>
    /\ text = native_text

\* C9: text acquisition never raises; an extractor that failed gave the empty string,
\* and extract_text ends with a string in text.
C9_AcquisitionNeverRaises ==
    /\ pc # "extract_raised"
    /\ (pc = "native_done" /\ "PyPDF2" \in errors) => native_text = EmptyStr
    /\ (pc = "text_done" /\ "OCR" \in errors) => ocr_text = EmptyStr
    /\ (pc = "text_done" /\ nativeCalls = 1) => (IsStr(native_text) /\ IsStr(text))

C9_Witness ==
    /\ pc = "text_done"
    /\ errors = {"PyPDF2", "OCR"}
    /\ text = EmptyStr

\* C10: whatever text was acquired, the empty text and a text that holds Supplier, Buyer,
\* Quantity or Grand Total with no GSTIN or number after it included, a parse of
\* InvoiceParser or SimplePDFParser that has been called has returned: a record with
\* the 30 canonical fields and a list of line items with the item fields; and after a
\* parse of the empty text every field but the invoice number holds its default.
C10_PatternParseNeverRaises ==
    parses > 0 =>
        /\ pc = "p_done"
        /\ DOMAIN invoice_data = CanonicalFields
        /\ \A i \in 1..Len(item_data) : DOMAIN item_data[i] = ItemFields
        /\ text = EmptyStr =>
              \A f \in CanonicalFields \ {"Invoice/Document Number"} :
                  invoice_data[f] = DefaultInvoice[f]

\* C11: after a pattern parse of a text that holds exactly three GSTIN-shaped tokens
\* and no supplier, buyer or consignee label, the record's Supplier GSTIN, Buyer GSTIN
\* and Consignee GSTIN are the first, second and third token in document order.
C11_ThreeGstinsByPosition ==
    LET \* the words that tie a GSTIN to a party (simple_pdf_parser.py 133-171)
        anchors == {"Supplier", "Seller", "From", "Buyer", "Customer", "Bill To",
                    "Consignee", "Ship To", "GSTIN"}
    IN (pc = "p_done" /\ Len(FindAllGstin(text)) = 3 /\ ~Contains(text, anchors)) =>
        /\ invoice_data["Supplier GSTIN"] = JStr(<<FindAllGstin(text)[1]>>)
        /\ invoice_data["Buyer GSTIN"] = JStr(<<FindAllGstin(text)[2]>>)
        /\ invoice_data["Consignee GSTIN"] = JStr(<<FindAllGstin(text)[3]>>)

\* C12: normalization turns a string held by a numeric field into the float read from
\* it once every rupee sign, dollar sign and comma is removed, and into 0.0 when what
\* remains is not a number; no exception leaves the conversion loop.
C12_StringCoercion ==
    LET raw == DictGet(llm_response, "invoice_data", EmptyDict)
        Expected(s) ==
            IF PyFloatOfStr(Without(s, {"RUPEE", "$", ","})).ok
            THEN JFloat(PyFloatOfStr(Without(s, {"RUPEE", "$", ","})).v)
            ELSE JFloat(0)
    IN (pc = "norm_done" /\ llm_response.t = "dict" /\ PyIn("error", llm_response) # "True"
            /\ raw.t = "dict" /\ "Total Invoice Value" \in DOMAIN raw.v) =>
          /\ invoice_data["Additional Remarks"] =
                 JStr(<<"Extracted with ", Capitalize(llm_provider), " LLM">>)
          /\ raw.v["Total Invoice Value"].t = "str" =>
                 invoice_data["Total Invoice Value"] = Expected(raw.v["Total Invoice Value"].v)

C14_LineNumbersIncrease ==
    pc \in {"norm_done", "done", "p_done"} =>
        /\ \A i \in 1..Len(item_data) :
              item_data[i]["Line #"].t = "int" /\ item_data[i]["Line #"].v >= 1
        /\ \A i, j \in 1..Len(item_data) :
              i < j => item_data[i]["Line #"].v < item_data[j]["Line #"].v

\* C15: in a returned record a consignee field that the document did not give holds
\* what the buyer field holds, and one that the document gave holds what was found.
\* For a normalized record the document gives a field when the raw invoice_data has
\* its label; for SimplePDFParser the GSTIN is given when the consignee search finds one.
C15_ConsigneeDefaultsToBuyer ==
    LET raw == DictGet(llm_response, "invoice_data", EmptyDict)
        pairs == {<<"Consignee Name", "Buyer Name">>, <<"Consignee GSTIN", "Buyer GSTIN">>,
                  <<"Consignee Address", "Buyer Address">>}
    IN /\ (pc = "norm_done" /\ llm_response.t = "dict"
               /\ PyIn("error", llm_response) = "False" /\ raw.t = "dict") =>
             \A p \in pairs :
                 invoice_data[p[1]] =
                     IF p[1] \in DOMAIN raw.v THEN raw.v[p[1]] ELSE invoice_data[p[2]]
       /\ (pc = "p_done" /\ parser = "SimplePDFParser") =>
             invoice_data["Consignee GSTIN"] =
                 IF Truthy(Simple_extract_gstin(text, "consignee"))
                 THEN JStr(Simple_extract_gstin(text, "consignee"))
                 ELSE invoice_data["Buyer GSTIN"]

\* C16: within one call of LLMPDFParser.parse the provider is called at most once, and
\* so are the text layer reader and OCR; a call that ended in an error result is
\* followed by the fallback with no further call.
C16_AtMostOneCall ==
    /\ llmCalls <= 1 /\ nativeCalls <= 1 /\ ocrCalls <= 1
    /\ (pc = "done" /\ path = "fallback") => (llmCalls = 1 /\ IsErrorResult(llm_response))
    /\ (pc = "done" /\ path = "failed") => llmCalls = 0

\* a parse that read the text layer, ran OCR, called the provider and fell back
C16_Witness ==
    /\ pc = "done" /\ path = "fallback"
    /\ nativeCalls = 1 /\ ocrCalls = 1 /\ llmCalls = 1

\* C17: when a pattern parser acquired no text, the record it returns has a remark that
\* is not empty and the item list is empty.
C17_NoTextIsReported ==
    (pc = "p_done" /\ text = EmptyStr) =>
        /\ Truthy(invoice_data["Additional Remarks"].v)
        /\ item_data = <<>>

\* C18: a pattern parse of a text that holds "Invoice No: INV-001", "Total Invoice
\* Value: Rs. 5000.00", two GSTIN tokens and the one table row SKU123, Widget, 10,
\* 500.00, 5%, 5250.00 (columns two blanks apart) returns the number INV-001, the total
\* 5000.00 and exactly one item, whose Quantity is 10 and whose Unit Price is 500.00.
C18_SyntheticInvoice ==
    (/\ pc = "p_done"
     /\ HasRun(text, <<"Invoice No", ":", " ", "INV-001">>)
     /\ HasRun(text, <<"Total Invoice Value", ":", " ", "Rs.", " ", "5000.00">>)
     /\ HasRun(text, <<"SKU123", " ", " ", "Widget", " ", " ", "10", " ", " ", "500.00",
                       " ", " ", "5%", " ", " ", "5250.00">>)
     /\ Len(FindAllGstin(text)) = 2
     /\ Len(SelectSeq(text, LAMBDA x : x = "SKU123")) = 1) =>
        /\ invoice_data["Invoice/Document Number"] = JStr(<<"INV-001">>)
        /\ invoice_data["Total Invoice Value"] = JFloat(500000)
        /\ Len(item_data) = 1
        /\ item_data[1]["Quantity"] = JFloat(1000)
        /\ item_data[1]["Unit Price"] = JFloat(50000)

\* C19: normalization of a raw result that has the error marker returns the record
\* with every field at its default, the error text in the remarks, and no line item;
\* nothing else of the raw result is in the record.
C19_ErrorShortCircuits ==
    (pc \in {"norm_done", "norm_raised"} /\ IsErrorResult(llm_response)) =>
        /\ pc = "norm_done"
        /\ DOMAIN invoice_data = CanonicalFields
        /\ \A f \in CanonicalFields \ {"Additional Remarks"} :
              invoice_data[f] = DefaultInvoice[f]
        /\ invoice_data["Serial Number"] = JStr(SerialNumber)
        /\ HasRun(invoice_data["Additional Remarks"].v, PyStr(llm_response.v["error"]))
        /\ item_data = <<>>

\* a raw result with the error marker, an invoice number and line items was normalized
C19_Witness ==
    /\ pc = "norm_done" /\ IsErrorResult(llm_response)
    /\ "line_items" \in DOMAIN llm_response.v
    /\ llm_response.v["line_items"].v # <<>>
    /\ llm_response.v["invoice_data"].v["Invoice Number"] = JStr(<<"INV-001">>)
    /\ invoice_data["Additional Remarks"] =
           JStr(<<"Error in LLM extraction: ", "quota exceeded">>)

\* C20: for a raw invoice_data that is a map, the record has exactly the canonical
\* fields, and every field for which the map holds no label of the translation table
\* has its default value (the remarks, which normalization writes itself, aside): a
\* raw key outside the table neither appears nor changes a field.
C20_OnlyTableKeysCopied ==
    LET raw == DictGet(llm_response, "invoice_data", EmptyDict) IN
    (pc = "norm_done" /\ llm_response.t = "dict" /\ raw.t = "dict") =>
        /\ DOMAIN invoice_data = CanonicalFields
        /\ \A f \in CanonicalFields \ {"Additional Remarks"} :
              (~ \E l \in DOMAIN InvoiceFieldMapping :
                    InvoiceFieldMapping[l] = f /\ l \in DOMAIN raw.v) =>
                  invoice_data[f] = DefaultInvoice[f]

\* a raw map with the key Vendor, which no table holds, and the key PO Number, which
\* names a canonical field but is no label of the table, was normalized
C20_Witness ==
    /\ pc = "norm_done" /\ llm_response.t = "dict"
    /\ "invoice_data" \in DOMAIN llm_response.v
    /\ llm_response.v["invoice_data"].t = "dict"
    /\ {"Vendor", "PO Number", "Invoice Number"} \subseteq DOMAIN llm_response.v["invoice_data"].v
    /\ invoice_data["Invoice/Document Number"] = JStr(<<"INV-001">>)
    /\ invoice_data["PO Number"] = JStr(EmptyStr)

\* C21: in every returned result each line item carries the Serial Number of the
\* invoice record as its Invoice Serial Number and the record's Invoice/Document
\* Number as its Invoice Number.
C21_ItemsReferTheirInvoice ==
    pc \in {"norm_done", "done", "p_done"} =>
        \A i \in 1..Len(item_data) :
            /\ item_data[i]["Invoice Serial Number"] = invoice_data["Serial Number"]
            /\ item_data[i]["Invoice Number"] = invoice_data["Invoice/Document Number"]

\* a normalized result with two items and the invoice number INV-001
C21_Witness ==
    /\ pc = "norm_done" /\ Len(item_data) = 2
    /\ invoice_data["Invoice/Document Number"] = JStr(<<"INV-001">>)

C23_PositionalGstin ==
    (pc = "p_done" /\ ~Contains(text, {"GSTIN"}) /\ FindAllGstin(text) # <<>>) =>
        /\ invoice_data["Supplier GSTIN"] = JStr(<<FindAllGstin(text)[1]>>)
        /\ Len(FindAllGstin(text)) >= 2 =>
              invoice_data["Buyer GSTIN"] = JStr(<<FindAllGstin(text)[2]>>)

\* C24: when the text has no label of an invoice number and no number of the Mensa
\* form, so that no invoice-number pattern matches, the Invoice/Document Number of the
\* returned record is the empty string, whichever parser produced the record.
C24_NoNumberIsEmpty ==
    LET labels == {"Document No", "Invoice No", "Invoice Number", "Bill No",
                   "Mensa/KA/BLR/830"}
    IN ((pc = "p_done" \/ (pc = "done" /\ path = "fallback")) /\ ~Contains(text, labels)) =>
          invoice_data["Invoice/Document Number"] = JStr(EmptyStr)

\* C25: when InvoiceParser finds no item in a table, the case of a text without any
\* table header included, and the text holds SKU-shaped tokens (capitals or digits, an
\* underscore, capitals or digits), the items are one per token in the order of the
\* text, five at most, numbered from 1.
C25_SecondChanceWithoutTable ==
    LET RECURSIVE Codes(_)
        Codes(t) == IF t = <<>> THEN <<>> ELSE Lexeme(Head(t)).codes \o Codes(Tail(t))
        k == IF Len(Codes(text)) < 5 THEN Len(Codes(text)) ELSE 5
    IN (pc = "p_done" /\ parser = "InvoiceParser" /\ ~Contains(text, TableHeaders)
            /\ Codes(text) # <<>>) =>
          /\ Len(item_data) = k
          /\ \A i \in 1..Len(item_data) :
                /\ item_data[i]["Item/SKU Code"] = JStr(<<Codes(text)[i]>>)
                /\ item_data[i]["Line #"] = JInt(i)

\* C26: when the reply text of either provider is a JSON object inside a code fence,
\* the opening fence with or without the json tag, with or without blanks or newlines
\* around the fences, the result of the call is the object, as for the bare JSON text.
C26_FencedIsUnfenced ==
    LET Fenced(d) == {<<"FENCE", "json", d, "FENCE">>, <<"FENCE", d, "FENCE">>} IN
    (pc \in {"llm_done", "done", "parse_raised"} /\ llmCalls = 1
        /\ response.kind = "text") =>
          \A d \in {"doc:full", "doc:nulls", "doc:header-only", "doc:error", "doc:empty"} :
              Without(response.text, {" ", "\n"}) \in Fenced(d) =>
                  llm_response = JsonDocument(d)

\* C27: a result that parse returns through the regex fallback has no line item,
\* whatever the text holds.
C27_FallbackHasNoItems == (pc = "done" /\ path = "fallback") => item_data = <<>>

\* the fallback ran on a text with an invoice number, a GSTIN and a total
C27_Witness ==
    /\ pc = "done" /\ path = "fallback"
    /\ HasRun(text, InvoicePage)
    /\ invoice_data["Invoice/Document Number"] = JStr(<<"INV-001">>)


\* C28: the upload handler answers with the "processed with fallback method" message
\* exactly when the parser took the fallback path, and with the "processed successfully"
\* message for a result normalized from the LLM's answer.
C28_FallbackIsReported ==
    (pc = "done" /\ message # NoAnswer) =>
        /\ path = "fallback" => Contains(message.message, {"fallback"})
        /\ path = "normalized" => Contains(message.message, {"successfully"})

\* C29: for a result whose line_items is a list of N entries the normalized items are
\* N records in input order, the i-th built from the i-th entry; an entry that is not
\* a key-value object does not make the records of the other entries disappear.
C29_EntriesAreIndependent ==
    (/\ pc = "norm_done"
     /\ llm_response.t = "dict"
     /\ DOMAIN llm_response.v = {"invoice_data", "line_items"}
     /\ llm_response.v["invoice_data"].t = "dict"
     /\ llm_response.v["line_items"].t = "list") =>
        LET items == llm_response.v["line_items"].v
            objects == {i \in 1..Len(items) : items[i].t = "dict"} IN
        /\ objects = 1..Len(items) =>
              /\ Len(item_data) = Len(items)
              /\ \A i \in objects :
                    "Item/SKU Code" \in DOMAIN items[i].v =>
                        item_data[i]["Item/SKU Code"] = items[i].v["Item/SKU Code"]
        /\ Cardinality(objects) <= Len(item_data)

-----------------------------------------------------------------------------
(* main.py: a bulk upload and its background task                          *)

\* the files a client submits, named by what happens to them: a file that is parsed
\* and saved, a file on which LLMPDFParser or parse() raises, a file whose result
\* save_to_csv cannot write, and a file that is no PDF
FileNames == {"invoice.pdf", "raises.pdf", "unsavable.pdf", "notes.txt"}

\* bulk_upload_invoices, lines 325-369; file_id and temp_path are the position
bulk_upload_invoices ==
    /\ job.at = "idle"
    /\ \E files \in SeqsUpTo(FileNames, MaxFiles) \ {<<>>}, provider \in {"google", "openai"} :
         IF \E i \in 1..Len(files) : files[i] = "notes.txt"
         THEN /\ job' = [at |-> "rejected", provider |-> provider]
              /\ UNCHANGED <<processing_info, temp>>
         ELSE /\ processing_info' =
                    [i \in 1..Len(files) |->
                        [file_id |-> i, filename |-> files[i], temp_path |-> i]]
              /\ temp' = 1..Len(files)
              /\ job' = [at |-> "queued", provider |-> provider]
    /\ UNCHANGED <<results, status_file, cursor>>
    /\ UNCHANGED <<installation, message, response>>
    /\ UNCHANGED <<pc, llm_provider, api_key, text, native_text, ocr_text, llm_response,
                   invoice_data, item_data, path, nativeCalls, ocrCalls, llmCalls, parses,
                   errors>>

\* a task that stops at the first file that fails
AbortOnFailure ==
    /\ job.at = "try"
    /\ LET name == processing_info[cursor + 1].filename IN
       IF name = "invoice.pdf"
       THEN /\ results' = [results EXCEPT ![cursor + 1].status = "completed"]
            /\ job' = [job EXCEPT !.at = "finally"]
       ELSE /\ results' = [results EXCEPT ![cursor + 1].status = "failed"]
            /\ job' = [job EXCEPT !.at = "finished"]
    /\ UNCHANGED <<processing_info, status_file, temp, cursor>>
    /\ UNCHANGED <<installation, message, response>>
    /\ UNCHANGED <<pc, llm_provider, api_key, text, native_text, ocr_text, llm_response,
                   invoice_data, item_data, path, nativeCalls, ocrCalls, llmCalls, parses,
                   errors>>

\* process_bulk_files, lines 397-407: the head of the loop body
LoopHead ==
    /\ job.at \in {"queued", "next"}
    /\ cursor < Len(processing_info)
    /\ LET info == processing_info[cursor + 1] IN
       results' = Append(results, [file_id |-> info.file_id, filename |-> info.filename,
                                   status |-> "processing", provider |-> job.provider])
    /\ status_file' = results'
    /\ job' = [job EXCEPT !.at = "try"]
    /\ UNCHANGED <<processing_info, temp, cursor>>
    /\ UNCHANGED <<installation, message, response>>
    /\ UNCHANGED <<pc, llm_provider, api_key, text, native_text, ocr_text, llm_response,
                   invoice_data, item_data, path, nativeCalls, ocrCalls, llmCalls, parses,
                   errors>>

\* process_bulk_files, lines 409-442: the try block and its except clause
TryBlock ==
    /\ job.at = "try"
    /\ LET name == processing_info[cursor + 1].filename IN
       results' = [results EXCEPT ![cursor + 1].status =
                      IF name = "invoice.pdf" THEN "completed" ELSE "failed"]
    /\ job' = [job EXCEPT !.at = "finally"]
    /\ UNCHANGED <<processing_info, status_file, temp, cursor>>
    /\ UNCHANGED <<installation, message, response>>
    /\ UNCHANGED <<pc, llm_provider, api_key, text, native_text, ocr_text, llm_response,
                   invoice_data, item_data, path, nativeCalls, ocrCalls, llmCalls, parses,
                   errors>>

\* process_bulk_files, lines 444-450: the finally clause, and the end of the loop
FinallyBlock ==
    /\ job.at = "finally"
    /\ temp' = temp \ {processing_info[cursor + 1].temp_path}
    /\ status_file' = results
    /\ cursor' = cursor + 1
    /\ job' = [job EXCEPT !.at = IF cursor' = Len(processing_info) THEN "finished" ELSE "next"]
    /\ UNCHANGED <<processing_info, results>>
    /\ UNCHANGED <<installation, message, response>>
    /\ UNCHANGED <<pc, llm_provider, api_key, text, native_text, ocr_text, llm_response,
                   invoice_data, item_data, path, nativeCalls, ocrCalls, llmCalls, parses,
                   errors>>

\* process_bulk_files, lines 389-450
process_bulk_files == LoopHead \/ TryBlock \/ FinallyBlock

NextBulk ==
    \/ bulk_upload_invoices
    \/ process_bulk_files

\* a background task that was added runs to its end (BackgroundTasks, line 362)
SpecBulk == Init /\ [][NextBulk]_vars /\ WF_vars(process_bulk_files)

\* C30: the files of a bulk job are processed one at a time in submission order; a
\* file that fails is marked failed, it alone, and the next file is processed; the
\* job finishes, and then every submitted file has an entry in the status file that
\* is completed or failed and no temporary copy is left.
C30_BulkJobFinishes ==
    /\ [](/\ Len(results) <= Len(processing_info)
          /\ \A i \in 1..Len(results) :
                /\ results[i].file_id = processing_info[i].file_id
                /\ results[i].status = "processing" => i = Len(results)
                /\ results[i].status = "failed" => results[i].filename # "invoice.pdf"
                /\ results[i].status = "completed" => results[i].filename = "invoice.pdf")
    /\ [](job.at = "finished" =>
            /\ Len(results) = Len(processing_info)
            /\ status_file = results
            /\ \A i \in 1..Len(results) : results[i].status \in {"completed", "failed"}
            /\ temp = {})
    /\ (job.at = "queued" ~> job.at = "finished")

C30_Witness ==
    /\ job.at = "finished"
    /\ Len(results) = 3
    /\ results[1].status = "failed" /\ results[2].status = "completed"
    /\ results[3].status = "failed"
    /\ temp = {}

====
